---- MODULE Spec2Model ----
(***************************************************************************)
(* A model of the provisioning engine of src/services/vpn_manager.py:      *)
(* create_user and delete_user, the functions they are built from          *)
(* (add_openvpn, add_wireguard, handle_add_user, delete_openvpn,           *)
(* delete_wireguard, handle_remove_user) and the locks they take           *)
(* (openvpn_lock, user_locks, file_lock).  A call is a coroutine; one      *)
(* action of the model is the code a coroutine runs between two suspension *)
(* points (await) that matter to another coroutine, so the interleavings   *)
(* of the model are those of the asyncio event loop.                       *)
(*                                                                         *)
(* create_user does not get past init_openvpn: line 353 hands all() a      *)
(* generator expression with an await in it, which is an asynchronous      *)
(* generator, and all() raises TypeError.  The functions create_user would *)
(* call after it are therefore modelled as calls of their own (Parts), the *)
(* way a caller of the module can run them.                                *)
(*                                                                         *)
(* Environment of the model (what the source leaves to its surroundings):  *)
(*  - the server has been set up: the PKI, the server keys, the WireGuard  *)
(*    key and the two network files exist, and so do all templates and the *)
(*    VLESS parameters of the setup file.                                  *)
(*  - easy-rsa: revoke moves the valid certificate of a name to the        *)
(*    revoked ones; build-client-full is refused while the name has a      *)
(*    valid certificate; gen-crl lists the revoked certificates.  A tool   *)
(*    exits non-zero when easy-rsa refuses the request, and may also fail  *)
(*    for a reason of its own, MaxToolFaults times in a behaviour.  wg and *)
(*    systemctl are taken to work.                                         *)
(*  - the Xray API is reachable or not (xrayUp).  The source does not say  *)
(*    when the library notices: XrayClient(host, port) either raises when  *)
(*    the API is unreachable, as get_xray_client documents, or returns a   *)
(*    client whose calls then fail; the model allows both.                 *)
(*  - the generated UUID of a new identity is one nobody has or, being     *)
(*    random, the UUID of a row; the table refuses the second.             *)
(*  - artifact file names carry no date: all calls happen on one day.      *)
(*                                                                         *)
(* The specifications: Spec (create_user and delete_user calls of two      *)
(* coroutines), PartsSpec (one coroutine running the Parts), WgSpec (two   *)
(* coroutines running add_wireguard, each for a user of its own as under   *)
(* user_locks, from network files that are partly filled, full, missing or *)
(* without the server's address), AllocSpec (the Parts from filled peer    *)
(* tables).  file_lock is left in the two steps of its finally clause      *)
(* (os.path.exists, then os.remove), and the resync of add_wireguard is a  *)
(* step of its own after it.                                               *)
(*                                                                         *)
(* CleanupSpec runs delete_user calls of one coroutine beside add_openvpn   *)
(* calls of another; FairSpec is Spec on a server whose tools do not fail  *)
(* for reasons of their own, with every coroutine that can run being run;  *)
(* HostSpec runs add_openvpn calls of one user beside add_wireguard calls  *)
(* of the other, with the host names of the setup file configured or not   *)
(* (the module global SERVER_HOST is bound by set_server_host_file_name    *)
(* and read when the profiles are rendered).                               *)
(*                                                                         *)
(* render is a pure function and has a specification of its own            *)
(* (RenderSpec), over templates made of a few pieces.                      *)
(*                                                                         *)
(* CallbackLockMiddleware of src/core/middlewares.py has a specification   *)
(* of its own as well (CallbackSpec): callback queries of the users, each  *)
(* in a coroutine, whose handlers return or raise.                         *)
(***************************************************************************)
EXTENDS Integers, Sequences, FiniteSets, TLC

\* Coroutines running calls.
Tasks == {"t1", "t2"}
\* User ids; the identity (client_name) of user id u is n<u>.
Users == {"u1", "u2"}
\* The two networks, in the order add_wireguard and delete_wireguard visit them.
Nets == <<"antizapret", "vpn">>
NetSet == {"antizapret", "vpn"}
\* The functions of the module that are run as calls of their own.
Parts == {"add_openvpn", "add_wireguard", "handle_add_user"}

\* create_user and delete_user calls, or concurrent add_wireguard calls,
\* started in one behaviour.
MaxCalls == 2
\* Calls started in one behaviour of a single coroutine.
MaxPartCalls == 4
\* Calls started in one behaviour that begins with filled peer tables.
MaxAllocCalls == 2
\* Tool runs that fail for reasons of their own in one behaviour, at most.
MaxToolFaults == 1
\* The callback queries delivered to the middleware in one behaviour.
MaxCallbacks == 5
\* The pieces a template of the model is made of, at most.
MaxPieces == 5
\* range(2, 255): the host octets add_wireguard hands out.
MinOctet == 2
MaxOctet == 254
\* The octets by which the filled peer tables of the model differ: one in
\* the middle, and the last one.
FewOctets == {(MinOctet + MaxOctet) \div 2, MaxOctet}

\* The artifact files of an identity's directory, by the suffix the code
\* matches them with.
OvpnFiles == {"AZ-UDP.ovpn", "AZ-TCP.ovpn", "AZ-U+T.ovpn",
              "GL-UDP.ovpn", "GL-TCP.ovpn", "GL-U+T.ovpn"}
ConfFilesOf(n) == IF n = "antizapret" THEN {"AZ-WG.conf", "AZ-AM.conf"}
                                      ELSE {"GL-WG.conf", "GL-AM.conf"}
ConfFiles == ConfFilesOf("antizapret") \cup ConfFilesOf("vpn")
JsonFiles == {"AZ-XR.json"}
TxtFiles == {"GL-XR.txt"}
ArtNames == OvpnFiles \cup ConfFiles \cup JsonFiles \cup TxtFiles

VARIABLES
    pc,            \* [Tasks -> label]: where each coroutine is suspended
    call,          \* [Tasks -> the call the coroutine runs]
    loc,           \* [Tasks -> the locals of the call]
    callSeq,       \* number given to the last call started (stamps what it writes)
    hist,          \* the calls that have returned or raised, in that order
    openvpn_lock,  \* asyncio.Lock: [holder, waiters]
    user_locks,    \* [Users -> asyncio.Lock]
    lockMarker,    \* [NetSet -> BOOLEAN]: <conf_path>.lock exists
    wgKey,         \* WIREGUARD_DIR/key exists
    wgConf,        \* [NetSet -> [exists, peers]]: the peer table files
    pki,           \* the easy-rsa PKI tree
    served,        \* OPENVPN_DIR/server/keys and client/keys
    tbl,           \* the rows of the users table (xray.db)
    remote,        \* the clients registered with the Xray inbound
    xrayUp,        \* the Xray API is reachable
    dirExists,     \* [Users -> BOOLEAN]: CLIENT_BASE_DIR/n<u> is a directory
    dir,           \* [Users -> [ArtNames -> call that wrote the file, 0: no file]]
    wlog,          \* writes of a peer table made outside its file lock (observation)
    template,      \* render: the template file, as the pieces it is made of
    variables,     \* render: the variables map, in the order of its items
    content,       \* render: the local of that name
    renderPc,      \* render: the statement it is at
    toolFaults,    \* the tool runs that may yet fail for reasons of their own
    config,        \* the host names of the setup file, "" for one that is not set
    SERVER_HOST,   \* the module global of that name
    profileHost,   \* [Users -> the SERVER_HOST its .ovpn and its .conf profiles carry]
    locks,         \* CallbackLockMiddleware.locks: the user ids being processed
    callback,      \* [Callbacks -> [pc, user_id]]: the __call__ coroutines
    delivered,     \* the callback queries delivered to the middleware so far
    lastEvent,     \* what the middleware did last, and for which user (observation)
    outcomes       \* the kinds of things it has done so far (observation)

\* What a call of render works on; create_user and delete_user and the
\* functions they are made of leave it alone.
rendering == <<template, variables, content, renderPc>>
\* The server host: what is configured, the global, and what was rendered.
hosts == <<config, SERVER_HOST, profileHost>>
\* The callback middleware of the bot.
middleware == <<locks, callback, delivered, lastEvent, outcomes>>

vars == <<pc, call, loc, callSeq, hist, openvpn_lock, user_locks, lockMarker,
          wgKey, wgConf, pki, served, tbl, remote, xrayUp, dirExists, dir, wlog,
          template, variables, content, renderPc, toolFaults,
          config, SERVER_HOST, profileHost,
          locks, callback, delivered, lastEvent, outcomes>>

----------------------------------------------------------------------------
(* Values *)

NoSnap == [prov |-> FALSE, absent |-> FALSE, rows |-> {}, files |-> [a \in ArtNames |-> 0],
           xr |-> "none", alone |-> FALSE]
NoCall == [op |-> "none", user |-> "none", id |-> 0, snap |-> NoSnap, trace |-> <<>>]
NoLoc == [net |-> 0, lines |-> <<>>, found |-> FALSE, ip |-> 0, uuid |-> 0,
          touched |-> {}, any |-> FALSE, dirty |-> {}, after |-> "none"]
FreeLock == [holder |-> "none", waiters |-> <<>>]
EmptyDir == [a \in ArtNames |-> 0]

\* The valid certificates of name u in a PKI tree; a certificate is <<name,
\* the call that had it built>>.
IssuedTo(p, u) == {c \in p.issued : c[1] = u}
\* The rows of a peer table tagged with identity u.
BlocksOf(peers, u) == {i \in 1..Len(peers) : peers[i].client = u}
\* The host octets of the IPv4-looking tokens of a peer table.
UsedOctets(peers) == {peers[i].ip : i \in 1..Len(peers)}
\* SELECT * FROM users WHERE email = u
RowsOf(u) == {r \in tbl : r.email = u}
\* The registrations of identity u with the inbound.
RegsOf(u) == {r \in remote : r.email = u}

\* The identity has everything create_user is to give it.
FullyProvisioned(u) ==
    /\ IssuedTo(pki, u) # {}
    /\ \A n \in NetSet : wgConf[n].exists /\ Cardinality(BlocksOf(wgConf[n].peers, u)) = 1
    /\ Cardinality(RowsOf(u)) = 1
    /\ RegsOf(u) = RowsOf(u)
    /\ dirExists[u]
    /\ \A a \in ArtNames : dir[u][a] # 0

\* The identity has nothing: never created, or fully deleted.
Absent(u) ==
    /\ IssuedTo(pki, u) = {}
    /\ \A n \in NetSet : BlocksOf(wgConf[n].peers, u) = {}
    /\ RowsOf(u) = {}
    /\ RegsOf(u) = {}
    /\ ~dirExists[u]

\* What a call finds when it starts.
Snapshot(u) == [prov |-> FullyProvisioned(u), absent |-> Absent(u),
                rows |-> RowsOf(u), files |-> dir[u],
                xr |-> IF xrayUp THEN "up" ELSE "down",
                alone |-> \A t \in Tasks : pc[t] = "idle"]

\* What a call has done so far is kept with it (trace): the external tools it
\* has run, with ok = the tool exited with 0, and the steps that the claims
\* about it speak of.
Step(s, ok) == [step |-> s, ok |-> ok]
\* The steps named s of a trace.
StepsOf(tr, s) == {i \in 1..Len(tr) : tr[i].step = s}
\* The easy-rsa commands the calls run.
EasyRsaTools == {"revoke", "build-client-full", "gen-crl"}
\* The tools of a trace that exited non-zero.
FailedTools(tr) == {i \in 1..Len(tr) : tr[i].step \in EasyRsaTools /\ ~tr[i].ok}

----------------------------------------------------------------------------
(* asyncio.Lock, and how a call begins and ends *)

\* Fault: a cleanup that removes every file of the directory.
WithoutAnyFiles(d, names) == [a \in ArtNames |-> 0]

\* Fault: a lock whose acquire never waits.
AlwaysFree(l) == TRUE

\* Lock.acquire's fast path: not locked and nobody waiting.
LockFree(l) == l.holder = "none" /\ l.waiters = <<>>
\* Lock.release: the first waiter is woken, nobody can overtake it.
Released(l) == [l EXCEPT !.holder = "none"]
Acquired(l, t) == IF LockFree(l) THEN [l EXCEPT !.holder = t]
                                 ELSE [l EXCEPT !.waiters = Append(@, t)]

\* The call of t ends with result res ("ok": it returned; else the exception
\* it raised) after the steps tr; its record is kept in hist.
FinishedWith(t, res, tr) ==
    /\ pc' = [pc EXCEPT ![t] = "idle"]
    /\ hist' = Append(hist, [op |-> call[t].op, user |-> call[t].user,
                             id |-> call[t].id, res |-> res,
                             snap |-> call[t].snap, task |-> t, trace |-> tr])
    /\ call' = [call EXCEPT ![t] = NoCall]
    /\ loc' = [loc EXCEPT ![t] = NoLoc]

Finished(t, res) == FinishedWith(t, res, call[t].trace)

\* Fault: the exception ends the call and the lock stays with it.
RaiseHoldingLock(t, exc) ==
    /\ openvpn_lock' = openvpn_lock
    /\ Finished(t, exc)

\* An exception leaves `async with openvpn_lock`.
RaiseInOvpn(t, exc) ==
    /\ openvpn_lock' = Released(openvpn_lock)
    /\ Finished(t, exc)

\* Fault: create_user and delete_user without `async with user_locks[user_id]`.
LeaveOvpnOnly(t, next) ==
    /\ openvpn_lock' = Released(openvpn_lock)
    /\ user_locks' = user_locks
    /\ pc' = [pc EXCEPT ![t] = next]

\* The OpenVPN block ends and `async with user_locks[user_id]` begins, with
\* no suspension point in between when the lock is free.
LeaveOvpnEnterUser(t, next) ==
    LET u == call[t].user IN
    /\ openvpn_lock' = Released(openvpn_lock)
    /\ user_locks' = [user_locks EXCEPT ![u] = Acquired(@, t)]
    /\ pc' = [pc EXCEPT ![t] = IF LockFree(user_locks[u]) THEN next ELSE "ul_wait"]

----------------------------------------------------------------------------
(* create_user / delete_user: entry and the global OpenVPN lock *)

FirstOvpn(op) == IF op = "create" THEN "ov_init" ELSE "do_pki"

\* create_user(u) or delete_user(u) is called: `async with openvpn_lock`.
StartCall(t, op, u) ==
    /\ pc[t] = "idle"
    /\ callSeq <= MaxCalls
    /\ callSeq' = callSeq + 1
    /\ call' = [call EXCEPT ![t] = [op |-> op, user |-> u, id |-> callSeq + 1,
                                    snap |-> Snapshot(u), trace |-> <<>>]]
    /\ openvpn_lock' = Acquired(openvpn_lock, t)
    /\ pc' = [pc EXCEPT ![t] = IF LockFree(openvpn_lock) THEN FirstOvpn(op) ELSE "ov_wait"]
    /\ UNCHANGED <<loc, hist, user_locks, lockMarker, wgKey, wgConf, pki, served,
                   tbl, remote, xrayUp, hosts, rendering, middleware, toolFaults, dirExists,
                   dir, wlog>>

\* A waiter of openvpn_lock is woken and takes the lock.
OvpnGranted(t) ==
    /\ pc[t] = "ov_wait"
    /\ openvpn_lock.holder = "none"
    /\ openvpn_lock.waiters # <<>> /\ Head(openvpn_lock.waiters) = t
    /\ openvpn_lock' = [holder |-> t, waiters |-> Tail(openvpn_lock.waiters)]
    /\ pc' = [pc EXCEPT ![t] = FirstOvpn(call[t].op)]
    /\ UNCHANGED <<call, loc, callSeq, hist, user_locks, lockMarker, wgKey, wgConf,
                   pki, served, tbl, remote, xrayUp, hosts, rendering, middleware,
                   toolFaults, dirExists, dir, wlog>>

\* A waiter of user_locks[user_id] is woken and takes the lock; delete_user
\* goes on with delete_wireguard.
UserGranted(t) ==
    LET u == call[t].user IN
    /\ pc[t] = "ul_wait"
    /\ user_locks[u].holder = "none"
    /\ user_locks[u].waiters # <<>> /\ Head(user_locks[u].waiters) = t
    /\ user_locks' = [user_locks EXCEPT ![u] = [holder |-> t, waiters |-> Tail(@.waiters)]]
    /\ pc' = [pc EXCEPT ![t] = "dw_read"]
    /\ UNCHANGED <<call, loc, callSeq, hist, openvpn_lock, lockMarker, wgKey, wgConf,
                   pki, served, tbl, remote, xrayUp, hosts, rendering, middleware,
                   toolFaults, dirExists, dir, wlog>>

\* init_openvpn, line 353: all(<asynchronous generator>) raises TypeError;
\* create_user leaves `async with openvpn_lock` with it and has changed nothing.
InitOpenvpn(t) ==
    /\ pc[t] = "ov_init"
    /\ RaiseInOvpn(t, "TypeError")
    /\ UNCHANGED <<callSeq, user_locks, lockMarker, wgKey, wgConf, pki, served, tbl,
                   remote, xrayUp, hosts, rendering, middleware, toolFaults, dirExists, dir,
                   wlog>>

\* The first step of a function run as a call of its own.
FirstStep(fn) == IF fn = "add_openvpn" THEN "ao_prep"
                 ELSE IF fn = "add_wireguard" THEN "aw_prep"
                 ELSE "ha_lookup"

\* add_openvpn(n<u>), add_wireguard(n<u>) or handle_add_user(n<u>, client)
\* is called, while fewer than max calls have been.
StartPart(t, fn, u, max) ==
    /\ pc[t] = "idle"
    /\ callSeq <= max
    /\ callSeq' = callSeq + 1
    /\ call' = [call EXCEPT ![t] = [op |-> fn, user |-> u, id |-> callSeq + 1,
                                    snap |-> Snapshot(u), trace |-> <<>>]]
    /\ pc' = [pc EXCEPT ![t] = FirstStep(fn)]
    /\ UNCHANGED <<loc, hist, openvpn_lock, user_locks, lockMarker, wgKey, wgConf, pki,
                   served, tbl, remote, xrayUp, hosts, rendering, middleware, toolFaults,
                   dirExists, dir, wlog>>

----------------------------------------------------------------------------
(* OpenVPN: add_openvpn *)

\* The files of a directory without those of the names given.
WithoutFiles(d, names) == [a \in ArtNames |-> IF a \in names THEN 0 ELSE d[a]]
\* The files of a directory with those of the names given written by call id.
WithFiles(d, names, id) == [a \in ArtNames |-> IF a \in names THEN id ELSE d[a]]

\* The address of the server, from the setup file (set_server_ip_async).
SERVER_IP == "server-ip"
\* set_server_host_file_name, line 310: server_host_override or SERVER_IP.
HostOr(override) == IF override # "" THEN override ELSE SERVER_IP

\* add_openvpn, lines 418-426: makedirs(client_dir), the removal of the old
\* .ovpn files, and set_server_host_file_name with OPENVPN_HOST.
AddOpenvpnPrepare(t) ==
    LET u == call[t].user IN
    /\ pc[t] = "ao_prep"
    /\ dirExists' = [dirExists EXCEPT ![u] = TRUE]
    /\ dir' = [dir EXCEPT ![u] = WithoutFiles(@, OvpnFiles)]
    /\ SERVER_HOST' = HostOr(config.OPENVPN_HOST)
    /\ pc' = [pc EXCEPT ![t] = "ao_pki"]
    /\ UNCHANGED <<call, loc, callSeq, hist, openvpn_lock, user_locks, lockMarker,
                   wgKey, wgConf, pki, served, tbl, remote, xrayUp, config, profileHost,
                   rendering, middleware, toolFaults, wlog>>

\* run_command, lines 155-163: the exit status of the tool decides what the
\* caller gets, (None, None) or the output.  TRUE: the tool exited with 0.
\* A tool may fail for reasons of its own (the disk, the openssl it runs).
ToolExits == BOOLEAN
\* The runs among exits that fail for such a reason.
Faults(exits) == Cardinality({i \in 1..Len(exits) : ~exits[i]})

\* Fault: a revoke that leaves the certificate among the issued ones.
RevokedStillIssued(p, u) == [p EXCEPT !.revoked = @ \cup IssuedTo(p, u)]

\* easyrsa revoke <u>: moves the valid certificate to the revoked ones.
PkiRevoked(p, u) ==
    [p EXCEPT !.issued = @ \ IssuedTo(p, u), !.revoked = @ \cup IssuedTo(p, u)]
\* easyrsa build-client-full <u>: refused when the name is already issued.
PkiIssued(p, u, id) ==
    IF p.ca /\ IssuedTo(p, u) = {} THEN [p EXCEPT !.issued = @ \cup {<<u, id>>}] ELSE p
\* pki/issued/<u>.crt: the certificate of that name built last, 0 without one.
CertFile(p, u) ==
    IF IssuedTo(p, u) = {} THEN 0
    ELSE (CHOOSE c \in IssuedTo(p, u) : \A d \in IssuedTo(p, u) : d[2] <= c[2])[2]
\* easyrsa gen-crl
PkiCrl(p) == IF p.ca THEN [p EXCEPT !.hasCrl = TRUE, !.crl = p.revoked] ELSE p

\* add_openvpn, lines 431-437: the certificate of the name, if there is one,
\* is revoked; r: the tool does its work.  The result of run_command is not
\* looked at.
PkiAfterRevoke(u, r) == IF CertFile(pki, u) # 0 /\ r THEN PkiRevoked(pki, u) ELSE pki
\* build-client-full exits with 0 when it does its work (b) and easy-rsa does
\* not refuse the name.
BuildExit(p, u, b) == b /\ p.ca /\ IssuedTo(p, u) = {}
\* add_openvpn, lines 431-444: revoke the existing certificate, if any, then
\* build the new one.
PkiAfterAdd(u, id, r, b) ==
    IF b THEN PkiIssued(PkiAfterRevoke(u, r), u, id) ELSE PkiAfterRevoke(u, r)
\* The tools add_openvpn has run, lines 431-444.
AddOpenvpnTools(u, r, b) ==
    (IF CertFile(pki, u) # 0 THEN <<Step("revoke", r)>> ELSE <<>>)
    \o <<Step("build-client-full", BuildExit(PkiAfterRevoke(u, r), u, b))>>

\* add_openvpn, lines 431-459: the easy-rsa calls and the copy of the
\* certificate and key of the name; shutil.copy raises when there is none.
AddOpenvpnPki(t) ==
    LET u == call[t].user IN
    /\ pc[t] = "ao_pki"
    /\ \E r, b \in ToolExits :
          LET p == PkiAfterAdd(u, call[t].id, r, b)
              tr == call[t].trace \o AddOpenvpnTools(u, r, b)
          IN
          /\ Faults(<<r, b>>) <= toolFaults
          /\ toolFaults' = toolFaults - Faults(<<r, b>>)
          /\ pki' = p
          /\ IF CertFile(p, u) = 0
             THEN /\ FinishedWith(t, "FileNotFoundError", tr)
                  /\ UNCHANGED served
             ELSE /\ served' = [served EXCEPT !.client[u] = CertFile(p, u)]
                  /\ call' = [call EXCEPT ![t].trace = Append(tr, Step("copy", TRUE))]
                  /\ pc' = [pc EXCEPT ![t] = "ao_render"]
                  /\ UNCHANGED <<loc, hist>>
    /\ UNCHANGED <<callSeq, openvpn_lock, user_locks, lockMarker, wgKey, wgConf, tbl,
                   remote, xrayUp, hosts, rendering, middleware, dirExists, dir, wlog>>

\* add_openvpn, lines 461-490: the six profiles are rendered and written, and
\* the function returns; open() raises when the directory is gone.
AddOpenvpnRender(t) ==
    LET u == call[t].user IN
    /\ pc[t] = "ao_render"
    /\ IF dirExists[u]
       THEN /\ dir' = [dir EXCEPT ![u] = WithFiles(@, OvpnFiles, call[t].id)]
            /\ profileHost' = [profileHost EXCEPT ![u].ovpn = SERVER_HOST]
            /\ FinishedWith(t, "ok", Append(call[t].trace, Step("render", TRUE)))
       ELSE /\ Finished(t, "FileNotFoundError")
            /\ UNCHANGED <<dir, profileHost>>
    /\ UNCHANGED <<callSeq, openvpn_lock, user_locks, lockMarker, wgKey, wgConf, pki,
                   served, tbl, remote, xrayUp, config, SERVER_HOST, rendering, middleware,
                   toolFaults, dirExists, wlog>>

----------------------------------------------------------------------------
(* WireGuard: file_lock, modify_wg_config, add_wireguard *)

\* The network the call is working on.
NetOf(t) == Nets[loc[t].net]

\* Fault: a modify_wg_config that never skips the old block of the client.
KeepsAll(lines, u) == lines

\* modify_wg_config, lines 239-258: the lines read, without the peer block
\* tagged with the client.
WithoutClient(lines, u) == SelectSeq(lines, LAMBDA b : b.client # u)
\* modify_wg_config, line 244: a block tagged with the client was among the lines.
ClientFound(lines, u) == \E i \in 1..Len(lines) : lines[i].client = u
\* modify_wg_config, lines 260-263: the new peer block is appended.
WithPeer(lines, u, ip) == Append(WithoutClient(lines, u), [client |-> u, ip |-> ip])

\* add_wireguard, lines 633-640: the lowest host octet of range(2, 255) that
\* is not among the addresses found in the file; 0 when there is none.
FreeOctets(peers) == (MinOctet..MaxOctet) \ UsedOctets(peers)
\* Fault: the highest unused octet is taken.
AllocHighest(peers) ==
    IF FreeOctets(peers) = {} THEN 0
    ELSE CHOOSE k \in FreeOctets(peers) : \A j \in FreeOctets(peers) : k >= j

AllocIp(peers) ==
    IF FreeOctets(peers) = {} THEN 0
    ELSE CHOOSE k \in FreeOctets(peers) : \A j \in FreeOctets(peers) : k <= j

\* The networks whose table the call has changed and not resynced since
\* (dirty), after it has written lines to the table of network n.
DirtyAfter(t, n, lines) ==
    IF lines # wgConf[n].peers THEN loc[t].dirty \cup {n} ELSE loc[t].dirty

\* The call is inside `async with file_lock(conf_path)` of network n.
LockSteps == {"mw_read", "mw_write", "aw_alloc", "mw2_read", "mw2_write", "fl_exit",
              "fl_release"}
InFileLock(t, n) == pc[t] \in LockSteps /\ loc[t].net # 0 /\ NetOf(t) = n

\* A write of a peer table by function fn, noted when the writer is not
\* inside the file lock of that table.
Logged(t, fn, n) == IF InFileLock(t, n) THEN wlog ELSE wlog \cup {<<fn, n>>}

\* add_wireguard, lines 586-609: makedirs(client_dir), the removal of the old
\* .conf profiles, set_server_host_file_name with WIREGUARD_HOST (594), the
\* server key; without the key the function returns.
AddWireguardPrepare(t) ==
    LET u == call[t].user IN
    /\ pc[t] = "aw_prep"
    /\ dirExists' = [dirExists EXCEPT ![u] = TRUE]
    /\ dir' = [dir EXCEPT ![u] = WithoutFiles(@, ConfFiles)]
    /\ SERVER_HOST' = HostOr(config.WIREGUARD_HOST)
    /\ IF wgKey
       THEN /\ loc' = [loc EXCEPT ![t].net = 1]
            /\ pc' = [pc EXCEPT ![t] = "fl_check"]
            /\ UNCHANGED <<call, hist>>
       ELSE Finished(t, "ok")
    /\ UNCHANGED <<callSeq, openvpn_lock, user_locks, lockMarker, wgKey, wgConf, pki,
                   served, tbl, remote, xrayUp, config, profileHost, rendering, middleware,
                   toolFaults, wlog>>

\* Fault: a file_lock that never finds the marker.
NeverSeen(t) == FALSE

\* file_lock, lines 181-182: the marker is looked for.
MarkerSeen(t) == lockMarker[NetOf(t)]

\* file_lock, lines 181-185: when the marker is there the call raises
\* IOError, before the try whose finally removes the marker.
FileLockCheck(t) ==
    /\ pc[t] = "fl_check"
    /\ IF MarkerSeen(t)
       THEN Finished(t, "IOError")
       ELSE /\ pc' = [pc EXCEPT ![t] = "fl_create"]
            /\ UNCHANGED <<call, loc, hist>>
    /\ UNCHANGED <<callSeq, openvpn_lock, user_locks, lockMarker, wgKey, wgConf, pki,
                   served, tbl, remote, xrayUp, hosts, rendering, middleware, toolFaults,
                   dirExists, dir, wlog>>

\* file_lock, lines 186-189: the marker is written (open(..., "w") creates
\* or truncates it) and the body of the `async with` begins.
FileLockCreate(t) ==
    /\ pc[t] = "fl_create"
    /\ lockMarker' = [lockMarker EXCEPT ![NetOf(t)] = TRUE]
    /\ pc' = [pc EXCEPT ![t] = "mw_read"]
    /\ UNCHANGED <<call, loc, callSeq, hist, openvpn_lock, user_locks, wgKey, wgConf,
                   pki, served, tbl, remote, xrayUp, hosts, rendering, middleware,
                   toolFaults, dirExists, dir, wlog>>

\* Fault: a finally that leaves the marker where it is.
MarkerKept(n) == lockMarker

\* file_lock, lines 190-192: the marker is removed when it is (still) there.
MarkerRemoved(n) == [lockMarker EXCEPT ![n] = FALSE]

\* The next network of add_wireguard's loop; after the last one the function
\* returns.
NextNet(t) ==
    IF loc[t].net < Len(Nets)
    THEN /\ loc' = [loc EXCEPT ![t].net = @ + 1, ![t].lines = <<>>, ![t].ip = 0,
                               ![t].found = FALSE]
         /\ pc' = [pc EXCEPT ![t] = "fl_check"]
         /\ UNCHANGED <<call, hist>>
    ELSE Finished(t, "ok")

\* add_wireguard, line 618 -> modify_wg_config, lines 233-237: the file is read.
\* When it does not exist modify_wg_config returns False, and the open() of
\* line 625 raises: the block is left by the exception.
RemoveOldRead(t) ==
    LET n == NetOf(t) IN
    /\ pc[t] = "mw_read"
    /\ IF wgConf[n].exists
       THEN /\ loc' = [loc EXCEPT ![t].lines = wgConf[n].peers,
                                  ![t].touched = @ \cup {n}]
            /\ pc' = [pc EXCEPT ![t] = "mw_write"]
       ELSE /\ loc' = [loc EXCEPT ![t].after = "FileNotFoundError"]
            /\ pc' = [pc EXCEPT ![t] = "fl_exit"]
    /\ UNCHANGED <<call, hist, lockMarker, callSeq, openvpn_lock, user_locks, wgKey, wgConf,
                   pki, served, tbl, remote, xrayUp, hosts, rendering, middleware,
                   toolFaults, dirExists, dir, wlog>>

\* modify_wg_config, lines 239-268 with new_peer_block = None: the file is
\* written back without the client's block.
RemoveOldWrite(t) ==
    LET n == NetOf(t)
        u == call[t].user
    IN
    /\ pc[t] = "mw_write"
    /\ wgConf' = [wgConf EXCEPT ![n].peers = WithoutClient(loc[t].lines, u)]
    /\ wlog' = Logged(t, "add_wireguard", n)
    /\ loc' = [loc EXCEPT ![t].found = ClientFound(loc[t].lines, u), ![t].lines = <<>>,
                           ![t].dirty = DirtyAfter(t, n, WithoutClient(loc[t].lines, u))]
    /\ pc' = [pc EXCEPT ![t] = "aw_alloc"]
    /\ UNCHANGED <<call, callSeq, hist, openvpn_lock, user_locks, lockMarker, wgKey,
                   pki, served, tbl, remote, xrayUp, hosts, rendering, middleware,
                   toolFaults, dirExists, dir>>

\* add_wireguard, lines 621-644: the client keys, the file read again, the
\* address chosen.  Without a base address in the file, or without a free
\* address, the `continue` leaves the block
\* and skips the resync and the profiles of this network.
AllocateIp(t) ==
    LET n == NetOf(t)
        ip == IF wgConf[n].base THEN AllocIp(wgConf[n].peers) ELSE 0
    IN
    /\ pc[t] = "aw_alloc"
    /\ IF ip = 0
       THEN /\ loc' = [loc EXCEPT ![t].after = "continue"]
            /\ pc' = [pc EXCEPT ![t] = "fl_exit"]
       ELSE /\ loc' = [loc EXCEPT ![t].ip = ip]
            /\ pc' = [pc EXCEPT ![t] = "mw2_read"]
    /\ UNCHANGED <<call, hist, lockMarker, callSeq, openvpn_lock, user_locks, wgKey, wgConf,
                   pki, served, tbl, remote, xrayUp, hosts, rendering, middleware,
                   toolFaults, dirExists, dir, wlog>>

\* add_wireguard, line 651 -> modify_wg_config, lines 233-237: the file is
\* read once more.
AddPeerRead(t) ==
    LET n == NetOf(t) IN
    /\ pc[t] = "mw2_read"
    /\ loc' = [loc EXCEPT ![t].lines = wgConf[n].peers]
    /\ pc' = [pc EXCEPT ![t] = "mw2_write"]
    /\ UNCHANGED <<call, callSeq, hist, openvpn_lock, user_locks, lockMarker, wgKey,
                   wgConf, pki, served, tbl, remote, xrayUp, hosts, rendering, middleware,
                   toolFaults, dirExists, dir, wlog>>

\* modify_wg_config, lines 239-268 with the new peer block: the lines read,
\* without the client's old block and with the new one at the end.
AddPeerWrite(t) ==
    LET n == NetOf(t)
        u == call[t].user
    IN
    /\ pc[t] = "mw2_write"
    /\ wgConf' = [wgConf EXCEPT ![n].peers = WithPeer(loc[t].lines, u, loc[t].ip)]
    /\ wlog' = Logged(t, "add_wireguard", n)
    /\ loc' = [loc EXCEPT ![t].lines = <<>>, ![t].after = "sync",
                           ![t].dirty = DirtyAfter(t, n, WithPeer(loc[t].lines, u, loc[t].ip))]
    /\ pc' = [pc EXCEPT ![t] = "fl_exit"]
    /\ UNCHANGED <<call, callSeq, hist, openvpn_lock, user_locks, lockMarker, wgKey,
                   pki, served, tbl, remote, xrayUp, hosts, rendering, middleware,
                   toolFaults, dirExists, dir>>

\* What follows the `async with file_lock` block, by the way it was left:
\* the resync, the next network (`continue`), or the exception going on.
\* Fault: a `continue` that ends the loop.
ContinueReturns(t) ==
    IF loc[t].after = "sync"
    THEN /\ pc' = [pc EXCEPT ![t] = "aw_sync"]
         /\ UNCHANGED <<call, loc, hist>>
    ELSE Finished(t, IF loc[t].after = "continue" THEN "ok" ELSE loc[t].after)

AfterLock(t) ==
    CASE loc[t].after = "sync" ->
            /\ pc' = [pc EXCEPT ![t] = "aw_sync"]
            /\ UNCHANGED <<call, loc, hist>>
      [] loc[t].after = "continue" -> NextNet(t)
      [] OTHER -> Finished(t, loc[t].after)

\* file_lock, line 191, in the finally that every way out of the block
\* runs: the marker is looked for; when it is not there nothing is removed.
FileLockExit(t) ==
    /\ pc[t] = "fl_exit"
    /\ IF lockMarker[NetOf(t)]
       THEN /\ pc' = [pc EXCEPT ![t] = "fl_release"]
            /\ UNCHANGED <<call, loc, hist>>
       ELSE AfterLock(t)
    /\ UNCHANGED <<callSeq, openvpn_lock, user_locks, lockMarker, wgKey, wgConf, pki,
                   served, tbl, remote, xrayUp, hosts, rendering, middleware, toolFaults,
                   dirExists, dir, wlog>>

\* file_lock, line 192: the marker is removed; os.remove raises when another
\* call has removed it since line 191.
FileLockRelease(t) ==
    /\ pc[t] = "fl_release"
    /\ lockMarker' = MarkerRemoved(NetOf(t))
    /\ IF lockMarker[NetOf(t)] THEN AfterLock(t) ELSE Finished(t, "FileNotFoundError")
    /\ UNCHANGED <<callSeq, openvpn_lock, user_locks, wgKey, wgConf, pki, served, tbl,
                   remote, xrayUp, hosts, rendering, middleware, toolFaults, dirExists, dir,
                   wlog>>

\* add_wireguard, line 653 -> sync_wireguard_config, lines 271-293: the
\* interface of the network, when it is active, is given the file as it is now.
AddWireguardSync(t) ==
    /\ pc[t] = "aw_sync"
    /\ loc' = [loc EXCEPT ![t].dirty = @ \ {NetOf(t)}]
    /\ pc' = [pc EXCEPT ![t] = "aw_render"]
    /\ UNCHANGED <<call, callSeq, hist, openvpn_lock, user_locks, lockMarker, wgKey, wgConf,
                   pki, served, tbl, remote, xrayUp, hosts, rendering, middleware,
                   toolFaults, dirExists, dir, wlog>>

\* add_wireguard, lines 655-676: the two client profiles of this network;
\* open() raises when the directory is gone.
AddWireguardRender(t) ==
    LET u == call[t].user IN
    /\ pc[t] = "aw_render"
    /\ IF dirExists[u]
       THEN /\ dir' = [dir EXCEPT ![u] = WithFiles(@, ConfFilesOf(NetOf(t)), call[t].id)]
            /\ profileHost' = [profileHost EXCEPT ![u].conf = SERVER_HOST]
            /\ NextNet(t)
       ELSE /\ Finished(t, "FileNotFoundError")
            /\ UNCHANGED <<dir, profileHost>>
    /\ UNCHANGED <<callSeq, openvpn_lock, user_locks, lockMarker, wgKey, wgConf, pki,
                   served, tbl, remote, xrayUp, config, SERVER_HOST, rendering, middleware,
                   toolFaults, dirExists, wlog>>

----------------------------------------------------------------------------
(* Xray: handle_add_user *)

\* utils.generate_random_user_id(): a UUID nobody has.
Uuids == 1..(2 * Cardinality(Users) + 1)
FreshUuid == CHOOSE k \in Uuids :
                /\ \A r \in tbl \cup remote : r.uuid # k
                /\ \A j \in Uuids : (\A r \in tbl \cup remote : r.uuid # j) => k <= j

\* What the generator can return: a UUID nobody has or, the values being
\* random, the UUID of a row.
NewUuids == {FreshUuid} \cup {r.uuid : r \in tbl}

\* Fault: an INSERT that takes any row.
InsertAny(uuid, u) == TRUE

\* add_user_to_db: uuid is the PRIMARY KEY and email is UNIQUE; the INSERT
\* raises IntegrityError, and the function returns False, when either is taken.
InsertOk(uuid, u) == \A r \in tbl : r.uuid # uuid /\ r.email # u

\* Fault: every identity is taken to have a row.
RowAssumed(u) == TRUE

\* get_user_by_identifier_from_db: the identity has a row.
HasRow(u) == RowsOf(u) # {}

\* handle_add_user, lines 894-909: the row of the identity is looked up; a
\* new identity gets a UUID and a row, and the call returns when the INSERT
\* is refused.
HandleAddLookup(t) ==
    LET u == call[t].user IN
    /\ pc[t] = "ha_lookup"
    /\ IF HasRow(u)
       THEN /\ loc' = [loc EXCEPT ![t].uuid = (CHOOSE r \in RowsOf(u) : TRUE).uuid]
            /\ pc' = [pc EXCEPT ![t] = "ha_clean"]
            /\ UNCHANGED <<call, hist, tbl>>
       ELSE \E k \in NewUuids :
               IF InsertOk(k, u)
               THEN /\ tbl' = tbl \cup {[uuid |-> k, email |-> u]}
                    /\ loc' = [loc EXCEPT ![t].uuid = k]
                    /\ pc' = [pc EXCEPT ![t] = "ha_add"]
                    /\ UNCHANGED <<call, hist>>
               ELSE /\ FinishedWith(t, "ok", Append(call[t].trace, Step("add_user_to_db", FALSE)))
                    /\ UNCHANGED tbl
    /\ UNCHANGED <<callSeq, openvpn_lock, user_locks, lockMarker, wgKey, wgConf, pki,
                   served, remote, xrayUp, hosts, rendering, middleware, toolFaults,
                   dirExists, dir, wlog>>

\* handle_add_user, line 902: f.endswith(<bool>) raises TypeError for the first
\* file of the directory, whatever its name; the removal of the old .json and
\* .txt files is never reached.
CleanupRaises(u) == dirExists[u] /\ \E a \in ArtNames : dir[u][a] # 0

\* xray_client.remove_client: raises when the API is unreachable or the
\* identity is not registered.
RemoteRemoveOk(u) == xrayUp /\ RegsOf(u) # {}
\* xray_client.add_client: fails when the API is unreachable or the identity
\* is registered already.
RemoteAddOk(u) == xrayUp /\ RegsOf(u) = {}

\* handle_add_user, lines 896-904, for an identity that has a row: the
\* directory is listed, which raises as soon as it holds a file; then the old
\* registration is removed.  An exception of remove_client is not caught.
HandleAddReplace(t) ==
    LET u == call[t].user IN
    /\ pc[t] = "ha_clean"
    /\ IF CleanupRaises(u)
       THEN /\ Finished(t, "TypeError")
            /\ UNCHANGED remote
       ELSE IF RemoteRemoveOk(u)
            THEN /\ remote' = remote \ RegsOf(u)
                 /\ call' = [call EXCEPT ![t].trace = Append(@, Step("remove_client", TRUE))]
                 /\ pc' = [pc EXCEPT ![t] = "ha_add"]
                 /\ UNCHANGED <<loc, hist>>
            ELSE /\ FinishedWith(t, "XrayError",
                                 Append(call[t].trace, Step("remove_client", FALSE)))
                 /\ UNCHANGED remote
    /\ UNCHANGED <<callSeq, openvpn_lock, user_locks, lockMarker, wgKey, wgConf, pki,
                   served, tbl, xrayUp, hosts, rendering, middleware, toolFaults, dirExists,
                   dir, wlog>>

\* Fault: the failure of add_client is logged and the function goes on.
AddFailureIgnored(t) ==
    /\ call' = [call EXCEPT ![t].trace = Append(@, Step("add_client", FALSE))]
    /\ pc' = [pc EXCEPT ![t] = "ha_write"]
    /\ UNCHANGED <<loc, hist>>

\* handle_add_user, lines 914-921: add_client has returned a false value or
\* has raised; the failure is logged and the function returns.
AddFailed(t) == FinishedWith(t, "ok", Append(call[t].trace, Step("add_client", FALSE)))

\* handle_add_user, lines 911-921: the identity is registered with its UUID.
HandleAddRegister(t) ==
    LET u == call[t].user IN
    /\ pc[t] = "ha_add"
    /\ IF RemoteAddOk(u)
       THEN /\ remote' = remote \cup {[uuid |-> loc[t].uuid, email |-> u]}
            /\ call' = [call EXCEPT ![t].trace = Append(@, Step("add_client", TRUE))]
            /\ pc' = [pc EXCEPT ![t] = "ha_write"]
            /\ UNCHANGED <<loc, hist>>
       ELSE /\ AddFailed(t)
            /\ UNCHANGED remote
    /\ UNCHANGED <<callSeq, openvpn_lock, user_locks, lockMarker, wgKey, wgConf, pki,
                   served, tbl, xrayUp, hosts, rendering, middleware, toolFaults, dirExists,
                   dir, wlog>>

\* handle_add_user, lines 923-961: makedirs and the .json and .txt files; the
\* function returns.
HandleAddWrite(t) ==
    LET u == call[t].user IN
    /\ pc[t] = "ha_write"
    /\ dirExists' = [dirExists EXCEPT ![u] = TRUE]
    /\ dir' = [dir EXCEPT ![u] = WithFiles(@, JsonFiles \cup TxtFiles, call[t].id)]
    /\ Finished(t, "ok")
    /\ UNCHANGED <<callSeq, openvpn_lock, user_locks, lockMarker, wgKey, wgConf, pki,
                   served, tbl, remote, xrayUp, hosts, rendering, middleware, toolFaults, wlog>>

----------------------------------------------------------------------------
(* delete_user: delete_openvpn, delete_wireguard, handle_remove_user, cleanup *)

\* easyrsa revoke exits with 0 when it does its work (r) and the name has a
\* valid certificate.
RevokeExit(p, u, r) == r /\ IssuedTo(p, u) # {}
\* gen-crl exits with 0 when it does its work (g) and there is a CA.
CrlExit(p, g) == g /\ p.ca
\* delete_openvpn, lines 502-511: revoke, then gen-crl, whatever revoke
\* returned.
PkiAfterDelete(u, r, g) ==
    LET p == IF r THEN PkiRevoked(pki, u) ELSE pki
    IN IF g THEN PkiCrl(p) ELSE p
\* The tools delete_openvpn has run, lines 502-511.
DeleteOpenvpnTools(u, r, g) ==
    <<Step("revoke", RevokeExit(pki, u, r)), Step("gen-crl", CrlExit(pki, g))>>

\* delete_openvpn, lines 502-518: the easy-rsa calls and the copy of the CRL
\* to the serving directory; shutil.copy raises when there is no CRL to copy
\* or no directory to copy it to.
DeleteOpenvpnPki(t) ==
    LET u == call[t].user IN
    /\ pc[t] = "do_pki"
    /\ \E r, g \in ToolExits :
          LET p == PkiAfterDelete(u, r, g)
              tr == call[t].trace \o DeleteOpenvpnTools(u, r, g)
          IN
          /\ Faults(<<r, g>>) <= toolFaults
          /\ toolFaults' = toolFaults - Faults(<<r, g>>)
          /\ pki' = p
          /\ IF p.hasCrl /\ served.keys
             THEN /\ served' = [served EXCEPT !.hasCrl = TRUE, !.crl = p.crl]
                  /\ call' = [call EXCEPT ![t].trace = Append(tr, Step("copy", TRUE))]
                  /\ pc' = [pc EXCEPT ![t] = "do_clean"]
                  /\ UNCHANGED <<loc, hist, openvpn_lock>>
             ELSE /\ openvpn_lock' = Released(openvpn_lock)
                  /\ FinishedWith(t, "FileNotFoundError", tr)
                  /\ UNCHANGED served
    /\ UNCHANGED <<callSeq, user_locks, lockMarker, wgKey, wgConf, tbl, remote,
                   xrayUp, hosts, rendering, middleware, dirExists, dir, wlog>>

\* delete_openvpn, lines 520-532: the .ovpn files and the served key and
\* certificate are removed; delete_user leaves the OpenVPN block and enters
\* the per-user one.
DeleteOpenvpnClean(t) ==
    LET u == call[t].user IN
    /\ pc[t] = "do_clean"
    /\ dir' = [dir EXCEPT ![u] = WithoutFiles(@, OvpnFiles)]
    /\ served' = [served EXCEPT !.client[u] = 0]
    /\ LeaveOvpnEnterUser(t, "dw_read")
    /\ loc' = [loc EXCEPT ![t].net = 1]
    /\ UNCHANGED <<call, callSeq, hist, lockMarker, wgKey, wgConf, pki, tbl, remote,
                   xrayUp, hosts, rendering, middleware, toolFaults, dirExists, wlog>>

\* The next network of delete_wireguard's loop, or the end of the loop.
NextNetDelete(t, found, dirty) ==
    IF loc[t].net < Len(Nets)
    THEN /\ loc' = [loc EXCEPT ![t].net = @ + 1, ![t].lines = <<>>,
                               ![t].any = @ \/ found, ![t].dirty = dirty]
         /\ pc' = [pc EXCEPT ![t] = "dw_read"]
    ELSE /\ loc' = [loc EXCEPT ![t].net = 0, ![t].lines = <<>>,
                               ![t].any = @ \/ found, ![t].dirty = dirty]
         /\ pc' = [pc EXCEPT ![t] = "dw_clean"]

\* delete_wireguard, line 696 -> modify_wg_config, lines 233-237: no file_lock
\* is taken; the file is read when it exists.
DeleteWireguardRead(t) ==
    LET n == NetOf(t) IN
    /\ pc[t] = "dw_read"
    /\ IF wgConf[n].exists
       THEN /\ loc' = [loc EXCEPT ![t].lines = wgConf[n].peers,
                                  ![t].touched = @ \cup {n}]
            /\ pc' = [pc EXCEPT ![t] = "dw_write"]
       ELSE NextNetDelete(t, FALSE, loc[t].dirty)
    /\ UNCHANGED <<call, callSeq, hist, openvpn_lock, user_locks, lockMarker, wgKey,
                   wgConf, pki, served, tbl, remote, xrayUp, hosts, rendering, middleware,
                   toolFaults, dirExists, dir, wlog>>

\* modify_wg_config, lines 239-268 with new_peer_block = None, and the resync
\* of line 699 when the client was found.
DeleteWireguardWrite(t) ==
    LET n == NetOf(t)
        u == call[t].user
    IN
    /\ pc[t] = "dw_write"
    /\ wgConf' = [wgConf EXCEPT ![n].peers = WithoutClient(loc[t].lines, u)]
    /\ wlog' = Logged(t, "delete_wireguard", n)
    /\ NextNetDelete(t, ClientFound(loc[t].lines, u),
                     IF ClientFound(loc[t].lines, u) THEN loc[t].dirty \ {n}
                     ELSE DirtyAfter(t, n, WithoutClient(loc[t].lines, u)))
    /\ call' = IF ClientFound(loc[t].lines, u)
               THEN [call EXCEPT ![t].trace = Append(@, Step("syncconf", TRUE))]
               ELSE call
    /\ UNCHANGED <<callSeq, hist, openvpn_lock, user_locks, lockMarker, wgKey,
                   pki, served, tbl, remote, xrayUp, hosts, rendering, middleware,
                   toolFaults, dirExists, dir>>

\* delete_wireguard, lines 701-710: without a block found the function
\* returns; else the .conf profiles are removed.
DeleteWireguardClean(t) ==
    LET u == call[t].user IN
    /\ pc[t] = "dw_clean"
    /\ dir' = [dir EXCEPT ![u] = IF loc[t].any THEN WithoutFiles(@, ConfFiles) ELSE @]
    /\ call' = [call EXCEPT ![t].trace = Append(@, Step("delete_wireguard", loc[t].any))]
    /\ pc' = [pc EXCEPT ![t] = "xr_client_d"]
    /\ UNCHANGED <<loc, callSeq, hist, openvpn_lock, user_locks, lockMarker,
                   wgKey, wgConf, pki, served, tbl, remote, xrayUp, hosts, rendering,
                   middleware, toolFaults, dirExists, wlog>>

\* Fault: delete_user goes on to its cleanup with the lock of the user.
CleanupHoldingLock(t) ==
    /\ user_locks' = user_locks
    /\ pc' = [pc EXCEPT ![t] = "cl_check"]

\* The end of `async with user_locks[user_id]` in delete_user: the cleanup of
\* the directory follows, outside the lock.
LeaveUserToCleanup(t) ==
    /\ user_locks' = [user_locks EXCEPT ![call[t].user] = Released(@)]
    /\ pc' = [pc EXCEPT ![t] = "cl_check"]

\* get_xray_client: XrayClient(host, port) returns a client, or raises and
\* the exception is turned into ConnectionError.  Of an unreachable API the
\* constructor may or may not take notice.
ConnectOutcomes == IF xrayUp THEN {"client"} ELSE {"client", "ConnectionError"}

\* delete_user, lines 1048-1054: get_xray_client; a ConnectionError is caught.
XrayConnectDelete(t) ==
    /\ pc[t] = "xr_client_d"
    /\ \E o \in ConnectOutcomes :
          /\ call' = [call EXCEPT ![t].trace = Append(@, Step("get_xray_client", o = "client"))]
          /\ IF o = "client"
             THEN /\ pc' = [pc EXCEPT ![t] = "hr_lookup"]
                  /\ UNCHANGED user_locks
             ELSE LeaveUserToCleanup(t)
    /\ UNCHANGED <<loc, callSeq, hist, openvpn_lock, lockMarker, wgKey, wgConf,
                   pki, served, tbl, remote, xrayUp, hosts, rendering, middleware,
                   toolFaults, dirExists, dir, wlog>>

\* handle_remove_user, lines 975-978: without a row the function returns.
HandleRemoveLookup(t) ==
    /\ pc[t] = "hr_lookup"
    /\ IF HasRow(call[t].user)
       THEN /\ pc' = [pc EXCEPT ![t] = "hr_remote"]
            /\ UNCHANGED user_locks
       ELSE LeaveUserToCleanup(t)
    /\ UNCHANGED <<call, loc, callSeq, hist, openvpn_lock, lockMarker, wgKey, wgConf,
                   pki, served, tbl, remote, xrayUp, hosts, rendering, middleware,
                   toolFaults, dirExists, dir, wlog>>

\* Fault: the row is deleted without a call to remove_client.
RemoveSkipped(t) ==
    /\ pc[t] = "hr_remote"
    /\ pc' = [pc EXCEPT ![t] = "hr_db"]
    /\ UNCHANGED <<call, loc, callSeq, hist, openvpn_lock, user_locks, lockMarker,
                   wgKey, wgConf, pki, served, tbl, remote, xrayUp, hosts, rendering,
                   middleware,
                   toolFaults, dirExists, dir, wlog>>

\* Fault: the failure of remove_client is raised, and ends delete_user.
RemoveFailureRaised(t) ==
    LET u == call[t].user IN
    /\ pc[t] = "hr_remote"
    /\ IF RemoteRemoveOk(u)
       THEN /\ remote' = remote \ RegsOf(u)
            /\ call' = [call EXCEPT ![t].trace = Append(@, Step("remove_client", TRUE))]
            /\ pc' = [pc EXCEPT ![t] = "hr_db"]
            /\ UNCHANGED <<loc, hist, user_locks>>
       ELSE /\ user_locks' = [user_locks EXCEPT ![u] = Released(@)]
            /\ FinishedWith(t, "XrayError",
                            Append(call[t].trace, Step("remove_client", FALSE)))
            /\ UNCHANGED remote
    /\ UNCHANGED <<callSeq, openvpn_lock, lockMarker, wgKey, wgConf, pki, served, tbl,
                   xrayUp, hosts, rendering, middleware, toolFaults, dirExists, dir, wlog>>

\* handle_remove_user, lines 980-984: remove_client; its failure is logged.
HandleRemoveRemote(t) ==
    LET u == call[t].user IN
    /\ pc[t] = "hr_remote"
    /\ remote' = IF RemoteRemoveOk(u) THEN remote \ RegsOf(u) ELSE remote
    /\ call' = [call EXCEPT ![t].trace = Append(@, Step("remove_client", RemoteRemoveOk(u)))]
    /\ pc' = [pc EXCEPT ![t] = "hr_db"]
    /\ UNCHANGED <<loc, callSeq, hist, openvpn_lock, user_locks, lockMarker,
                   wgKey, wgConf, pki, served, tbl, xrayUp, hosts, rendering, middleware,
                   toolFaults, dirExists, dir, wlog>>

\* handle_remove_user, line 986 -> remove_user_from_db.
HandleRemoveRow(t) ==
    /\ pc[t] = "hr_db"
    /\ tbl' = tbl \ RowsOf(call[t].user)
    /\ pc' = [pc EXCEPT ![t] = "hr_clean"]
    /\ UNCHANGED <<call, loc, callSeq, hist, openvpn_lock, user_locks, lockMarker,
                   wgKey, wgConf, pki, served, remote, xrayUp, hosts, rendering, middleware,
                   toolFaults, dirExists, dir, wlog>>

\* handle_remove_user, lines 989-993: the .json and .txt files are removed;
\* delete_user leaves the per-user block.
HandleRemoveClean(t) ==
    LET u == call[t].user IN
    /\ pc[t] = "hr_clean"
    /\ dir' = [dir EXCEPT ![u] = WithoutFiles(@, JsonFiles \cup TxtFiles)]
    /\ LeaveUserToCleanup(t)
    /\ UNCHANGED <<call, loc, callSeq, hist, openvpn_lock, lockMarker, wgKey, wgConf,
                   pki, served, tbl, remote, xrayUp, hosts, rendering, middleware,
                   toolFaults, dirExists, wlog>>

\* delete_user, lines 1057-1060: is the directory there, and empty?
DirEmpty(u) == dirExists[u] /\ \A a \in ArtNames : dir[u][a] = 0

CleanupCheck(t) ==
    /\ pc[t] = "cl_check"
    /\ IF DirEmpty(call[t].user)
       THEN /\ pc' = [pc EXCEPT ![t] = "cl_rmtree"]
            /\ UNCHANGED <<call, loc, hist>>
       ELSE Finished(t, "ok")
    /\ UNCHANGED <<callSeq, openvpn_lock, user_locks, lockMarker, wgKey, wgConf, pki,
                   served, tbl, remote, xrayUp, hosts, rendering, middleware, toolFaults,
                   dirExists, dir, wlog>>

\* delete_user, line 1062: shutil.rmtree removes the directory and whatever
\* is in it by now; it raises when the directory is gone.
CleanupRemove(t) ==
    LET u == call[t].user IN
    /\ pc[t] = "cl_rmtree"
    /\ IF dirExists[u]
       THEN /\ dirExists' = [dirExists EXCEPT ![u] = FALSE]
            /\ dir' = [dir EXCEPT ![u] = EmptyDir]
            /\ Finished(t, "ok")
       ELSE /\ Finished(t, "FileNotFoundError")
            /\ UNCHANGED <<dirExists, dir>>
    /\ UNCHANGED <<callSeq, openvpn_lock, user_locks, lockMarker, wgKey, wgConf, pki,
                   served, tbl, remote, xrayUp, hosts, rendering, middleware, toolFaults, wlog>>

----------------------------------------------------------------------------
(* Templates: render *)

\* A string is the sequence of its characters.  [a-zA-Z_] and [a-zA-Z_0-9],
\* as far as the characters of the model's templates go.
IdStart == {"A", "B", "v", "_"}
IdChars == IdStart \cup {"0", "1", "2", "3", "4", "5", "6", "7", "8", "9"}

\* f"${{{var_name}}}"
Token(name) == <<"$", "{">> \o name \o <<"}">>

\* The names of the variables of the model and what a template is made of:
\* single characters and whole tokens.
Names == {<<"A">>, <<"B">>}
Pieces == {<<"$">>, <<"{">>, <<"}">>, <<"B">>} \cup {Token(nm) : nm \in Names}
Templates == UNION {[1..n -> Pieces] : n \in 0..MaxPieces}
\* The variables maps of the model: empty, A with a value, A with the empty
\* string.  B is never in the map.
VariableMaps == {<<>>,
                 <<[name |-> <<"A">>, value |-> <<"v">>]>>,
                 <<[name |-> <<"A">>, value |-> <<>>]>>}

\* The text of a file made of the pieces ps.
RECURSIVE Flatten(_)
Flatten(ps) == IF ps = <<>> THEN <<>> ELSE Head(ps) \o Flatten(Tail(ps))

\* s begins with p.
Prefix(p, s) == Len(p) <= Len(s) /\ SubSeq(s, 1, Len(p)) = p

\* str.replace(old, new): the occurrences of old, found from the left and not
\* overlapping, are replaced; what is put in is not looked at again.
RECURSIVE Replace(_, _, _)
Replace(s, old, new) ==
    IF s = <<>> THEN <<>>
    ELSE IF Prefix(old, s)
         THEN new \o Replace(SubSeq(s, Len(old) + 1, Len(s)), old, new)
         ELSE <<Head(s)>> \o Replace(Tail(s), old, new)

\* render, lines 329-330: one replace per item of the map, in its order.
RECURSIVE Substituted(_, _)
Substituted(s, vs) ==
    IF vs = <<>> THEN s
    ELSE Substituted(Replace(s, Token(vs[1].name), vs[1].value), Tail(vs))

\* The number of characters of [a-zA-Z_0-9] s begins with.
RECURSIVE IdRun(_)
IdRun(s) == IF s # <<>> /\ Head(s) \in IdChars THEN 1 + IdRun(Tail(s)) ELSE 0

\* The length of the match of \$\{[a-zA-Z_][a-zA-Z_0-9]*} at the start of s,
\* 0 without a match.
MatchLen(s) ==
    IF Len(s) >= 4 /\ s[1] = "$" /\ s[2] = "{" /\ s[3] \in IdStart
    THEN LET n == IdRun(SubSeq(s, 4, Len(s)))
         IN IF Len(s) >= 4 + n /\ s[4 + n] = "}" THEN 4 + n ELSE 0
    ELSE 0

\* render, line 332: re.sub(pattern, "", content): the matches, found from
\* the left and not overlapping, are removed in one pass.
RECURSIVE Stripped(_)
Stripped(s) ==
    IF s = <<>> THEN <<>>
    ELSE IF MatchLen(s) > 0 THEN Stripped(SubSeq(s, MatchLen(s) + 1, Len(s)))
    ELSE <<Head(s)>> \o Stripped(Tail(s))

\* What create_user, delete_user and their parts work on; render leaves it
\* alone.
provisioning == <<pc, call, loc, callSeq, hist, openvpn_lock, user_locks, lockMarker,
                  wgKey, wgConf, pki, served, tbl, remote, xrayUp, dirExists, dir, wlog,
                  toolFaults, config, SERVER_HOST, profileHost>>

\* render, lines 327-328: the template file is read.
RenderRead ==
    /\ renderPc = "open"
    /\ content' = Flatten(template)
    /\ renderPc' = "replace"
    /\ UNCHANGED <<provisioning, middleware, template, variables>>

\* render, lines 329-330.
RenderReplace ==
    /\ renderPc = "replace"
    /\ content' = Substituted(content, variables)
    /\ renderPc' = "sub"
    /\ UNCHANGED <<provisioning, middleware, template, variables>>

\* render, lines 331-333: the unreplaced variables are removed and content
\* is returned.
RenderStrip ==
    /\ renderPc = "sub"
    /\ content' = Stripped(content)
    /\ renderPc' = "return"
    /\ UNCHANGED <<provisioning, middleware, template, variables>>

----------------------------------------------------------------------------
(* Initial states and specifications *)

\* A server that has been set up and on which user u1 is provisioned, while
\* user u2 is unknown; what is there at the start is stamped 1.  No call is
\* running.
ServerState(confs, faults) ==
    /\ pc = [t \in Tasks |-> "idle"]
    /\ call = [t \in Tasks |-> NoCall]
    /\ loc = [t \in Tasks |-> NoLoc]
    /\ callSeq = 1
    /\ hist = <<>>
    /\ openvpn_lock = FreeLock
    /\ user_locks = [u \in Users |-> FreeLock]
    /\ lockMarker = [n \in NetSet |-> FALSE]
    /\ wgKey = TRUE
    /\ wgConf = confs
    /\ pki = [ca |-> TRUE, issued |-> {<<"u1", 1>>}, revoked |-> {}, crl |-> {},
              hasCrl |-> TRUE]
    /\ served = [keys |-> TRUE, hasCrl |-> TRUE, crl |-> {},
                 client |-> [u \in Users |-> IF u = "u1" THEN 1 ELSE 0]]
    /\ tbl = {[uuid |-> 1, email |-> "u1"]}
    /\ remote = {[uuid |-> 1, email |-> "u1"]}
    /\ dirExists = [u \in Users |-> u = "u1"]
    /\ dir = [u \in Users |-> [a \in ArtNames |-> IF u = "u1" THEN 1 ELSE 0]]
    /\ wlog = {}
    /\ toolFaults = faults

\* The server with the network files given, and tools that may fail.
ServerWithConf(confs) == ServerState(confs, MaxToolFaults)

\* A network file as the setup leaves it, with the peer blocks given.
ConfWith(peers) == [exists |-> TRUE, base |-> TRUE, peers |-> peers]
ServerWith(tables) == ServerWithConf([n \in NetSet |-> ConfWith(tables[n])])

\* No call of render is looked at.
\* The host names of the setup file, each configured or not.
Configs == [OPENVPN_HOST : {"", "openvpn-host"}, WIREGUARD_HOST : {"", "wireguard-host"}]
\* No profile of the model's first files is looked at for its host; the
\* global is not bound before the first call of set_server_host_file_name.
HostsWith(cfg) ==
    /\ config = cfg
    /\ SERVER_HOST = "unbound"
    /\ profileHost = [u \in Users |-> [ovpn |-> "none", conf |-> "none"]]
\* Neither host name is configured.
NoHosts == HostsWith([OPENVPN_HOST |-> "", WIREGUARD_HOST |-> ""])

\* The coroutines aiogram runs __call__ in, one for each callback query.
Callbacks == {"c1", "c2", "c3"}
\* A coroutine that runs no __call__.
NoCallback == [pc |-> "idle", user_id |-> "none"]
\* CallbackLockMiddleware.__init__, lines 14-16: no user is locked.
NoCallbacks ==
    /\ locks = {}
    /\ callback = [c \in Callbacks |-> NoCallback]
    /\ delivered = 0
    /\ lastEvent = [what |-> "none", user_id |-> "none"]
    /\ outcomes = {}

NoRender ==
    /\ template = <<>>
    /\ variables = <<>>
    /\ content = <<>>
    /\ renderPc = "none"

\* The peer tables with the block of u1, at the first address, and no other.
FirstTables == [n \in NetSet |-> <<[client |-> "u1", ip |-> MinOctet]>>]

InstalledServer == ServerWith(FirstTables)

\* The Xray API is reachable or not, for the whole behaviour.
Init ==
    /\ InstalledServer
    /\ NoRender
    /\ NoHosts
    /\ NoCallbacks
    /\ xrayUp \in BOOLEAN

\* Two coroutines, each running one create_user or delete_user call after
\* the other.
Next ==
    \E t \in Tasks :
        \/ \E op \in {"create", "delete"} : \E u \in Users : StartCall(t, op, u)
        \/ OvpnGranted(t)
        \/ UserGranted(t)
        \/ InitOpenvpn(t)
        \/ DeleteOpenvpnPki(t)
        \/ DeleteOpenvpnClean(t)
        \/ DeleteWireguardRead(t)
        \/ DeleteWireguardWrite(t)
        \/ DeleteWireguardClean(t)
        \/ XrayConnectDelete(t)
        \/ HandleRemoveLookup(t)
        \/ HandleRemoveRemote(t)
        \/ HandleRemoveRow(t)
        \/ HandleRemoveClean(t)
        \/ CleanupCheck(t)
        \/ CleanupRemove(t)

Spec == Init /\ [][Next]_vars

\* All subsystems healthy.
InitParts ==
    /\ InstalledServer
    /\ NoRender
    /\ NoHosts
    /\ NoCallbacks
    /\ xrayUp \in BOOLEAN

\* The steps of an add_openvpn call.
AddOpenvpnStep(t) ==
    \/ AddOpenvpnPrepare(t)
    \/ AddOpenvpnPki(t)
    \/ AddOpenvpnRender(t)

\* The steps of an add_wireguard call.
AddWireguardStep(t) ==
    \/ AddWireguardPrepare(t)
    \/ FileLockCheck(t)
    \/ FileLockCreate(t)
    \/ RemoveOldRead(t)
    \/ RemoveOldWrite(t)
    \/ AllocateIp(t)
    \/ AddPeerRead(t)
    \/ AddPeerWrite(t)
    \/ FileLockExit(t)
    \/ FileLockRelease(t)
    \/ AddWireguardSync(t)
    \/ AddWireguardRender(t)

\* The steps of a handle_add_user call.
HandleAddStep(t) ==
    \/ HandleAddLookup(t)
    \/ HandleAddReplace(t)
    \/ HandleAddRegister(t)
    \/ HandleAddWrite(t)

\* One coroutine running add_openvpn, add_wireguard and handle_add_user calls
\* one after the other.
NextParts ==
    \/ \E fn \in Parts : \E u \in Users : StartPart("t1", fn, u, MaxPartCalls)
    \/ AddOpenvpnStep("t1")
    \/ AddWireguardStep("t1")
    \/ HandleAddStep("t1")

PartsSpec == InitParts /\ [][NextParts]_vars

\* create_user runs add_wireguard inside user_locks[user_id]: calls for one
\* user do not overlap.  Each coroutine here has a user of its own.
OwnUser == [t \in Tasks |-> IF t = "t1" THEN "u1" ELSE "u2"]

\* Two coroutines, each running add_wireguard calls one after the other.
NextWg ==
    \E t \in Tasks :
        \/ StartPart(t, "add_wireguard", OwnUser[t], MaxCalls)
        \/ AddWireguardStep(t)

\* A peer table as the server has it after many calls: the block of u1 at the
\* first address and a block of some other client, named by its octet, at
\* each octet of used.
TableOf(used) ==
    <<[client |-> "u1", ip |-> MinOctet]>>
    \o SelectSeq([i \in 1..(MaxOctet - MinOctet) |->
                    [client |-> ToString(MinOctet + i), ip |-> MinOctet + i]],
                 LAMBDA b : b.ip \in used)

\* The network files the calls meet: as the setup leaves them; a full table
\* and a file that is not there; a file without the Address line.
WgConfs ==
    { [n \in NetSet |-> ConfWith(FirstTables[n])],
      [n \in NetSet |-> IF n = "antizapret" THEN ConfWith(TableOf((MinOctet + 1)..MaxOctet))
                                            ELSE [exists |-> FALSE, base |-> FALSE,
                                            peers |-> <<>>]],
      [n \in NetSet |-> IF n = "antizapret" THEN ConfWith(FirstTables[n])
                                            ELSE [ConfWith(FirstTables[n]) EXCEPT !.base = FALSE]] }

InitWg ==
    /\ \E confs \in WgConfs : ServerWithConf(confs)
    /\ NoRender
    /\ NoHosts
    /\ NoCallbacks
    /\ xrayUp = TRUE

WgSpec == InitWg /\ [][NextWg]_vars

\* Tables that are nearly empty and tables that are full or nearly full.
SparseTables == {TableOf(s) : s \in SUBSET FewOctets}
DenseTables == {TableOf(((MinOctet + 1)..MaxOctet) \ s) : s \in SUBSET FewOctets}
PeerTables == SparseTables \cup DenseTables

\* The server with the peer tables filled to different degrees.
\* The network files of these servers: every pair of such tables, and the
\* pairs in which one file has lost its Address line.
AllocConfs ==
    {[n \in NetSet |-> ConfWith(tables[n])] : tables \in [NetSet -> PeerTables]}
    \cup {[n \in NetSet |-> IF n = m THEN [ConfWith(FirstTables[n]) EXCEPT !.base = FALSE]
                                      ELSE ConfWith(tb)] :
              m \in NetSet, tb \in PeerTables}

InitAlloc ==
    /\ \E confs \in AllocConfs : ServerWithConf(confs)
    /\ NoRender
    /\ NoHosts
    /\ NoCallbacks
    /\ xrayUp = TRUE

\* One coroutine running add_openvpn, add_wireguard and handle_add_user calls
\* one after the other.
NextAlloc ==
    \/ \E fn \in Parts : \E u \in Users : StartPart("t1", fn, u, MaxAllocCalls)
    \/ AddOpenvpnStep("t1")
    \/ AddWireguardStep("t1")
    \/ HandleAddStep("t1")

AllocSpec == InitAlloc /\ [][NextAlloc]_vars

\* The steps of the call coroutine t is running.  The event loop runs every
\* coroutine that is ready, and the tools and API calls a step waits for
\* are taken to end: a step that stays possible is taken.
Run(t) ==
    \/ OvpnGranted(t)
    \/ UserGranted(t)
    \/ InitOpenvpn(t)
    \/ DeleteOpenvpnPki(t)
    \/ DeleteOpenvpnClean(t)
    \/ DeleteWireguardRead(t)
    \/ DeleteWireguardWrite(t)
    \/ DeleteWireguardClean(t)
    \/ XrayConnectDelete(t)
    \/ HandleRemoveLookup(t)
    \/ HandleRemoveRemote(t)
    \/ HandleRemoveRow(t)
    \/ HandleRemoveClean(t)
    \/ CleanupCheck(t)
    \/ CleanupRemove(t)

\* The installed server with tools that work: run_command's result is not
\* looked at, so a failing tool changes what the PKI holds and not the way a
\* create_user or delete_user call takes through its locks.
InitFair ==
    /\ ServerState([n \in NetSet |-> ConfWith(FirstTables[n])], 0)
    /\ NoRender
    /\ NoHosts
    /\ NoCallbacks
    /\ xrayUp \in BOOLEAN

FairSpec == InitFair /\ [][Next]_vars /\ \A t \in Tasks : WF_vars(Run(t))

\* Two coroutines on a server with the host names of the setup file, each
\* configured or not: t1 runs add_openvpn calls for its user and t2
\* add_wireguard calls for the other user, as the OpenVPN block of one
\* create_user call and the per-user block of another (lines 1010-1016),
\* which hold no common lock.
NextHost ==
    \/ StartPart("t1", "add_openvpn", OwnUser["t1"], MaxCalls)
    \/ AddOpenvpnStep("t1")
    \/ StartPart("t2", "add_wireguard", OwnUser["t2"], MaxCalls)
    \/ AddWireguardStep("t2")

InitHost ==
    /\ InstalledServer
    /\ NoRender
    /\ \E cfg \in Configs : HostsWith(cfg)
    /\ NoCallbacks
    /\ xrayUp = TRUE

HostSpec == InitHost /\ [][NextHost]_vars

\* What the middleware has just done for the callback query of a user.
Observed(what, u) ==
    /\ lastEvent' = [what |-> what, user_id |-> u]
    /\ outcomes' = outcomes \cup {what}

\* __call__, lines 38-47: a callback query of user u is delivered. With the
\* user in locks the call returns; otherwise the user is added and the
\* handler is awaited. There is no await between the test and the add.
CallbackArrives(c, u) ==
    /\ callback[c].pc = "idle"
    /\ delivered < MaxCallbacks
    /\ delivered' = delivered + 1
    /\ IF u \in locks
       THEN /\ Observed("dropped", u)
            /\ UNCHANGED <<locks, callback>>
       ELSE /\ locks' = locks \cup {u}
            /\ callback' = [callback EXCEPT ![c] = [pc |-> "handler", user_id |-> u]]
            /\ Observed("handler", u)
    /\ UNCHANGED <<provisioning, rendering>>

\* __call__, lines 48-51: the handler returns; the finally clause discards the
\* user and the result is returned.
HandlerReturns(c) ==
    /\ callback[c].pc = "handler"
    /\ locks' = locks \ {callback[c].user_id}
    /\ callback' = [callback EXCEPT ![c] = NoCallback]
    /\ Observed("returned", callback[c].user_id)
    /\ UNCHANGED <<delivered, provisioning, rendering>>

\* A handler that raised and the user is still in locks.
RaisesHoldingLock(c) ==
    /\ callback[c].pc = "handler"
    /\ callback' = [callback EXCEPT ![c] = NoCallback]
    /\ Observed("raised", callback[c].user_id)
    /\ UNCHANGED <<locks, delivered, provisioning, rendering>>

\* __call__, lines 48-51: the handler raises, or the coroutine is cancelled
\* while it awaits the handler; the finally clause discards the user and the
\* exception goes on to the caller.
HandlerRaises(c) ==
    /\ callback[c].pc = "handler"
    /\ locks' = locks \ {callback[c].user_id}
    /\ callback' = [callback EXCEPT ![c] = NoCallback]
    /\ Observed("raised", callback[c].user_id)
    /\ UNCHANGED <<delivered, provisioning, rendering>>

\* The callback queries of the users, each in a coroutine of its own.
NextCallbacks ==
    \E c \in Callbacks :
        \/ \E u \in Users : CallbackArrives(c, u)
        \/ HandlerReturns(c)
        \/ HandlerRaises(c)

InitCallbacks ==
    /\ InstalledServer
    /\ NoRender
    /\ NoHosts
    /\ NoCallbacks
    /\ xrayUp = TRUE

CallbackSpec == InitCallbacks /\ [][NextCallbacks]_vars

\* A coroutine running delete_user calls and another running add_openvpn
\* calls, the part of create_user that makes the directory of an identity and
\* writes into it; the cleanup of delete_user is outside every lock, so
\* openvpn_lock around add_openvpn would keep none of its steps away.
NextCleanup ==
    \/ \E u \in Users : StartCall("t1", "delete", u)
    \/ DeleteOpenvpnPki("t1")
    \/ DeleteOpenvpnClean("t1")
    \/ DeleteWireguardRead("t1")
    \/ DeleteWireguardWrite("t1")
    \/ DeleteWireguardClean("t1")
    \/ XrayConnectDelete("t1")
    \/ HandleRemoveLookup("t1")
    \/ HandleRemoveRemote("t1")
    \/ HandleRemoveRow("t1")
    \/ HandleRemoveClean("t1")
    \/ CleanupCheck("t1")
    \/ CleanupRemove("t1")
    \/ \E u \in Users : StartPart("t2", "add_openvpn", u, MaxCalls)
    \/ AddOpenvpnStep("t2")

CleanupSpec == Init /\ [][NextCleanup]_vars

\* render is called with a template and a variables map.
InitRender ==
    /\ InstalledServer
    /\ xrayUp = TRUE
    /\ NoHosts
    /\ NoCallbacks
    /\ template \in Templates
    /\ variables \in VariableMaps
    /\ content = <<>>
    /\ renderPc = "open"

NextRender ==
    \/ RenderRead
    \/ RenderReplace
    \/ RenderStrip

RenderSpec == InitRender /\ [][NextRender]_vars

----------------------------------------------------------------------------
(* Properties *)

\* No call is running.
AllIdle == \A t \in Tasks : pc[t] = "idle"
\* The call that ended last.
LastCall == hist[Len(hist)]
\* The call ran with the Xray API reachable.
Healthy(c) == c.snap.xr = "up"
\* The files of a directory whose name is among names.
FilesIn(d, names) == {a \in names : d[a] # 0}
\* The calls of function fn for u that have returned.
Returned(fn, u) ==
    {i \in 1..Len(hist) : hist[i].op = fn /\ hist[i].user = u /\ hist[i].res = "ok"}

\* C1: after create_user has been called twice in a row for one user id, all
\* subsystems healthy, the identity has at most one unrevoked certificate, at
\* most one peer block in each network file and at most one Xray table row.
\* create_user itself changes nothing (InitOpenvpn); the property is stated for
\* the functions that issue certificates, add peer blocks and insert rows:
\* however often they have been called, one after the other, for whatever
\* users, no identity has more than one of each.
CreateTwiceNoDuplicates ==
    AllIdle =>
        \A u \in Users :
            /\ Cardinality(IssuedTo(pki, u)) <= 1
            /\ \A n \in NetSet : Cardinality(BlocksOf(wgConf[n].peers, u)) <= 1
            /\ Cardinality(RowsOf(u)) <= 1

\* The case of C1: add_openvpn and add_wireguard have each been called twice
\* for one identity and have returned, and the identity has one certificate,
\* the one built last, and one block in each file.
AddedTwice ==
    \E u \in Users :
        /\ AllIdle
        /\ Cardinality(Returned("add_openvpn", u)) = 2
        /\ Cardinality(Returned("add_wireguard", u)) = 2
        /\ Cardinality(IssuedTo(pki, u)) = 1
        /\ Cardinality({c \in pki.revoked : c[1] = u}) >= 1
        /\ \A n \in NetSet : Cardinality(BlocksOf(wgConf[n].peers, u)) = 1

\* C2: create_user for an identity that has a certificate, peer blocks, a row
\* and its artifact files, all subsystems healthy, ends without an exception
\* and has written every artifact file anew.
RecreateCompletes ==
    (/\ AllIdle
     /\ hist # <<>>
     /\ LastCall.op = "create"
     /\ LastCall.snap.prov
     /\ Healthy(LastCall))
    => /\ LastCall.res = "ok"
       /\ \A a \in ArtNames : dir[LastCall.user][a] = LastCall.id

\* The steps of a call inside `async with openvpn_lock`.
OvpnSteps == {"ov_init", "do_pki", "do_clean"}
InOvpnSection(t) == pc[t] \in OvpnSteps

\* C3: at most one call at a time is in its OpenVPN section, and it is the
\* holder of openvpn_lock; the calls that have reached the section while
\* another call is in it are the ones waiting for the lock.
OneInOvpnSection ==
    /\ \A t1, t2 \in Tasks : InOvpnSection(t1) /\ InOvpnSection(t2) => t1 = t2
    /\ \A t \in Tasks : InOvpnSection(t) <=> openvpn_lock.holder = t
    /\ \A t \in Tasks :
          pc[t] = "ov_wait" <=> (\E i \in 1..Len(openvpn_lock.waiters) :
                                    openvpn_lock.waiters[i] = t)

\* The case of C3: one call is in its OpenVPN section and another waits for it.
OvpnContended ==
    \E t1, t2 \in Tasks : InOvpnSection(t1) /\ pc[t2] = "ov_wait"

\* The steps of a call inside `async with user_locks[user_id]`.
UserSteps == {"dw_read", "dw_write", "dw_clean", "xr_client_d", "hr_lookup",
              "hr_remote", "hr_db", "hr_clean"}
InUserSection(t) == pc[t] \in UserSteps

\* C4: two calls with the same user id are never both in their WireGuard+Xray
\* sections; the second one waits until the first has left.
OneInUserSection ==
    \A t1, t2 \in Tasks :
        (InUserSection(t1) /\ InUserSection(t2) /\ call[t1].user = call[t2].user)
        => t1 = t2

\* The case of C4: a call is in its WireGuard+Xray section and another call
\* with the same user id waits for the lock.
UserContended ==
    \E t1, t2 \in Tasks :
        /\ InUserSection(t1)
        /\ pc[t2] = "ul_wait"
        /\ call[t1].user = call[t2].user

\* C5: at most one add_wireguard call at a time is inside the file_lock
\* critical section of one network configuration file.
FileLockExclusive ==
    \A n \in NetSet : Cardinality({t \in Tasks : InFileLock(t, n)}) <= 1

\* C6: every write to a peer table, by add_wireguard and by delete_wireguard,
\* is made by a call that holds the file lock of that table.
WritesUnderLock == wlog = {}

\* C7: a call that finds the marker when it tries to acquire the file lock
\* ends at once with IOError; the marker stays, and the call has not read the
\* protected file and does not write it.
MarkerFoundFailsFast ==
    [][\A t \in Tasks :
          (pc[t] = "fl_check" /\ lockMarker[NetOf(t)] /\ pc'[t] # pc[t])
          => /\ pc'[t] = "idle"
             /\ Len(hist') = Len(hist) + 1
             /\ hist'[Len(hist')].task = t
             /\ hist'[Len(hist')].res = "IOError"
             /\ lockMarker' = lockMarker
             /\ wgConf' = wgConf
             /\ NetOf(t) \notin loc[t].touched]_vars

\* The case of C7: a call has ended with IOError and the marker it found is
\* in place.
MarkerFound ==
    /\ hist # <<>>
    /\ LastCall.res = "IOError"
    /\ \E n \in NetSet : lockMarker[n]

\* C8: two create_user calls for different user ids, all subsystems healthy,
\* both end without an exception, and then each identity has a peer block in
\* both network files and an Xray table row.
BothCreated ==
    (/\ AllIdle
     /\ Len(hist) = 2
     /\ \A i \in 1..2 : hist[i].op = "create" /\ Healthy(hist[i])
     /\ hist[1].user # hist[2].user)
    => /\ \A i \in 1..2 : hist[i].res = "ok"
       /\ \A u \in Users : /\ \A n \in NetSet : BlocksOf(wgConf[n].peers, u) # {}
                           /\ RowsOf(u) # {}

\* C9: create_user for a new user id, all subsystems healthy, ends with exactly
\* 12 artifact files in the directory (6 .ovpn, 4 .conf, 1 .json, 1 .txt), one
\* Xray table row and one peer block in each network file.
CreateNewProducesAll ==
    (/\ AllIdle
     /\ hist # <<>>
     /\ LastCall.op = "create"
     /\ LastCall.snap.absent
     /\ Healthy(LastCall))
    => LET u == LastCall.user IN
       /\ LastCall.res = "ok"
       /\ Cardinality(FilesIn(dir[u], ArtNames)) = 12
       /\ Cardinality(FilesIn(dir[u], OvpnFiles)) = 6
       /\ Cardinality(FilesIn(dir[u], ConfFiles)) = 4
       /\ Cardinality(FilesIn(dir[u], JsonFiles)) = 1
       /\ Cardinality(FilesIn(dir[u], TxtFiles)) = 1
       /\ Cardinality(RowsOf(u)) = 1
       /\ \A n \in NetSet : Cardinality(BlocksOf(wgConf[n].peers, u)) = 1

\* C10: create_user for a provisioned user while the Xray API is unreachable
\* ends without an exception, has written the 10 OpenVPN and WireGuard files
\* anew, has left the .json and .txt files as they were, and the row too.
RecreateWithoutXray ==
    (/\ AllIdle
     /\ hist # <<>>
     /\ LastCall.op = "create"
     /\ LastCall.snap.prov
     /\ LastCall.snap.xr = "down")
    => LET u == LastCall.user IN
       /\ LastCall.res = "ok"
       /\ \A a \in OvpnFiles \cup ConfFiles : dir[u][a] = LastCall.id
       /\ \A a \in JsonFiles \cup TxtFiles : dir[u][a] = LastCall.snap.files[a]
       /\ RowsOf(u) = LastCall.snap.rows

\* No tool the call ran exited non-zero.
ToolsOk(c) == FailedTools(c.trace) = {}
\* The certificates of name u that have been revoked.
RevokedOf(p, u) == {c \in p.revoked : c[1] = u}

\* C11: delete_user for an identity that has a certificate, a peer block in
\* both network files, a row and all its artifact files, with the Xray API
\* reachable and every tool exiting with 0, returns, and then the certificate
\* is revoked, neither network file has a peer block of the identity, the
\* table has no row of it, and its artifact directory is gone with its files.
DeleteRemovesAll ==
    (/\ AllIdle
     /\ hist # <<>>
     /\ LastCall.op = "delete"
     /\ LastCall.snap.prov
     /\ Healthy(LastCall)
     /\ ToolsOk(LastCall))
    => LET u == LastCall.user IN
       /\ LastCall.res = "ok"
       /\ IssuedTo(pki, u) = {}
       /\ RevokedOf(pki, u) # {}
       /\ \A n \in NetSet : BlocksOf(wgConf[n].peers, u) = {}
       /\ RowsOf(u) = {}
       /\ FilesIn(dir[u], ArtNames) = {}
       /\ ~dirExists[u]

\* The call that ended last was the only one running from its start to its end.
RanAlone == hist # <<>> /\ LastCall.snap.alone /\ LastCall.id = callSeq

\* The same, for a call that no other call overlapped.
DeleteAloneRemovesAll == RanAlone => DeleteRemovesAll

\* Octet k is in [2,254], does not occur in the table, and is the lowest such.
LowestUnused(k, peers) ==
    /\ k \in MinOctet..MaxOctet
    /\ \A i \in 1..Len(peers) : peers[i].ip # k
    /\ \A j \in MinOctet..(k - 1) : \E i \in 1..Len(peers) : peers[i].ip = j
\* Every octet of [2,254] occurs in the table.
Exhausted(peers) ==
    \A j \in MinOctet..MaxOctet : \E i \in 1..Len(peers) : peers[i].ip = j

\* C12: the address add_wireguard chooses for the peer, in a file that has
\* the server's address, is the lowest octet of [2,254] that does not occur
\* in the file, and the block it then appends carries that address; when
\* every octet of [2,254] occurs in the file the call goes on to the next
\* network, or returns, and the file stays as it is.
AllocatesLowestUnused ==
    [][\A t \in Tasks :
          /\ (pc[t] = "aw_alloc" /\ wgConf[NetOf(t)].base /\ pc'[t] # pc[t]) =>
                IF Exhausted(wgConf[NetOf(t)].peers)
                THEN /\ pc'[t] = "fl_exit"
                     /\ loc'[t].after = "continue"
                     /\ wgConf' = wgConf
                ELSE /\ pc'[t] = "mw2_read"
                     /\ LowestUnused(loc'[t].ip, wgConf[NetOf(t)].peers)
          /\ (pc[t] = "mw2_write" /\ pc'[t] # pc[t]) =>
                LET new == wgConf'[NetOf(t)].peers IN
                /\ new # <<>>
                /\ new[Len(new)] = [client |-> call[t].user, ip |-> loc[t].ip]
                /\ \A n \in NetSet \ {NetOf(t)} : wgConf'[n] = wgConf[n]]_vars

\* The case of C12: an add_wireguard call has returned; the first network
\* file was full and has no block of the identity, the second one had free
\* addresses in the middle and has the block at the lowest of them, with
\* higher addresses in use.
AllocatedAndExhausted ==
    /\ AllIdle
    /\ hist # <<>>
    /\ LastCall.op = "add_wireguard"
    /\ LastCall.res = "ok"
    /\ LET u == LastCall.user
           a == wgConf["antizapret"].peers
           v == wgConf["vpn"].peers
       IN /\ Exhausted(a)
          /\ BlocksOf(a, u) = {}
          /\ \E i \in BlocksOf(v, u) :
                /\ v[i].ip > MinOctet + 1
                /\ \E j \in 1..Len(v) : v[j].ip > v[i].ip
                /\ \A k \in MinOctet..(v[i].ip - 1) : \E j \in 1..Len(v) : v[j].ip = k

\* Neither network file has a peer block of identity u.
NoBlocks(u) == \A n \in NetSet : BlocksOf(wgConf[n].peers, u) = {}

\* C13: while delete_wireguard runs for an identity that has no peer block in
\* either network file, and had none when the call began, no step of it writes
\* a network file or changes what the file holds, and when it is through it
\* has reported that the client was not found and has run no resync.
DeleteUnknownWritesNothing ==
    [][\A t \in Tasks :
          (/\ call[t].op = "delete"
           /\ call[t].snap.absent
           /\ NoBlocks(call[t].user)
           /\ pc[t] \in {"dw_read", "dw_write", "dw_clean"}
           /\ pc'[t] # pc[t])
          => /\ wgConf' = wgConf
             /\ wlog' = wlog
             /\ StepsOf(call'[t].trace, "syncconf") = {}
             /\ pc[t] = "dw_clean" =>
                   call'[t].trace[Len(call'[t].trace)] = Step("delete_wireguard", FALSE)]_vars

\* The part of C13 that is about what the files hold.
DeleteUnknownKeepsTables ==
    [][\A t \in Tasks :
          (/\ call[t].op = "delete"
           /\ call[t].snap.absent
           /\ NoBlocks(call[t].user)
           /\ pc[t] \in {"dw_read", "dw_write", "dw_clean"}
           /\ pc'[t] # pc[t])
          => wgConf' = wgConf]_vars

\* The names of the tokens ${NAME} that occur in s.
TokenNamesIn(s) ==
    {SubSeq(s, i + 2, i + MatchLen(SubSeq(s, i, Len(s))) - 2) :
        i \in {j \in 1..Len(s) : MatchLen(SubSeq(s, j, Len(s))) > 0}}
\* The names of a variables map, and the value of one of them.
KeysOf(vs) == {vs[i].name : i \in 1..Len(vs)}
ValueOf(vs, nm) == (CHOOSE i \in 1..Len(vs) : vs[i].name = nm)
\* A template in which every "$", "{" and "}" is part of a token.
TokensAndText(ps) ==
    \A i \in 1..Len(ps) : ps[i] \in {Token(nm) : nm \in Names} \/ ps[i] = <<"B">>
\* What the claim says of such a template: each token gives way to the value
\* of its name, or to nothing, and the text in between stays.
RECURSIVE Expected(_, _)
Expected(ps, vs) ==
    IF ps = <<>> THEN <<>>
    ELSE (IF \E nm \in Names : Head(ps) = Token(nm)
          THEN LET nm == CHOOSE x \in Names : Head(ps) = Token(x)
               IN IF nm \in KeysOf(vs) THEN vs[ValueOf(vs, nm)].value ELSE <<>>
          ELSE Head(ps)) \o Expected(Tail(ps), vs)

\* C14: in what render returns each token ${NAME} of the template has given
\* way to the value of NAME when the map has one and to the empty string when
\* it has none, and no token ${NAME} with a NAME that is not in the map is
\* left in it.
RenderReplacesOrRemoves ==
    renderPc = "return" =>
        /\ TokensAndText(template) => content = Expected(template, variables)
        /\ TokenNamesIn(content) \subseteq KeysOf(variables)

\* The part of C14 that is about templates made of tokens and plain text.
RenderPlainTemplates ==
    (renderPc = "return" /\ TokensAndText(template))
    => /\ content = Expected(template, variables)
       /\ TokenNamesIn(content) = {}

\* The calls that have ended, of function fn.
Ended(fn) == {i \in 1..Len(hist) : hist[i].op = fn}

\* C15: a call whose OpenVPN step had a tool exit non-zero goes on to its
\* WireGuard and Xray steps.  For create_user the OpenVPN step, past
\* init_openvpn, is add_openvpn, and create_user goes on when add_openvpn
\* returns: an add_openvpn call in which a tool exited non-zero returns.
OpenvpnToolFailureGoesOn ==
    \A i \in Ended("add_openvpn") :
        FailedTools(hist[i].trace) # {} => hist[i].res = "ok"

\* The part of C15 that is about delete_user: a call in which revoke or
\* gen-crl exited non-zero has run delete_wireguard and has asked for the
\* Xray client.
DeleteToolFailureGoesOn ==
    \A i \in Ended("delete") :
        FailedTools(hist[i].trace) # {}
        => /\ StepsOf(hist[i].trace, "delete_wireguard") # {}
           /\ StepsOf(hist[i].trace, "get_xray_client") # {}

DeleteWithoutXray ==
    (/\ AllIdle
     /\ RanAlone
     /\ LastCall.op = "delete"
     /\ LastCall.snap.prov
     /\ LastCall.snap.xr = "down"
     /\ ToolsOk(LastCall))
    => LET u == LastCall.user IN
       /\ LastCall.res = "ok"
       /\ IssuedTo(pki, u) = {}
       /\ RevokedOf(pki, u) # {}
       /\ NoBlocks(u)
       /\ FilesIn(dir[u], OvpnFiles \cup ConfFiles) = {}
       /\ RowsOf(u) = LastCall.snap.rows
       /\ \A a \in JsonFiles \cup TxtFiles : dir[u][a] = LastCall.snap.files[a]

\* The part of C17 that is about OpenVPN and WireGuard.
DeleteWithoutXrayOthers ==
    (/\ AllIdle
     /\ RanAlone
     /\ LastCall.op = "delete"
     /\ LastCall.snap.prov
     /\ LastCall.snap.xr = "down"
     /\ ToolsOk(LastCall))
    => LET u == LastCall.user IN
       /\ LastCall.res = "ok"
       /\ IssuedTo(pki, u) = {}
       /\ RevokedOf(pki, u) # {}
       /\ NoBlocks(u)
       /\ FilesIn(dir[u], OvpnFiles \cup ConfFiles) = {}

\* The .ovpn files of every directory.
OvpnFilesOf(d) == [u \in Users |-> [a \in OvpnFiles |-> d[u][a]]]
\* The .conf files of every directory.
ConfFilesIn(d) == [u \in Users |-> [a \in ConfFiles |-> d[u][a]]]

\* C18: no step of add_wireguard or handle_add_user, the steps create_user
\* takes after add_openvpn, revokes a certificate, removes a served key or
\* deletes an .ovpn file, whether the step succeeds or fails; and no step of
\* handle_add_user changes a peer table or deletes a .conf file.
NoRollback ==
    [][\A t \in Tasks :
          (call[t].op \in {"add_wireguard", "handle_add_user"} /\ pc'[t] # pc[t])
          => /\ pki' = pki
             /\ served' = served
             /\ OvpnFilesOf(dir') = OvpnFilesOf(dir)
             /\ call[t].op = "handle_add_user" =>
                   /\ wgConf' = wgConf
                   /\ ConfFilesIn(dir') = ConfFilesIn(dir)]_vars

\* The case of C18: add_openvpn has returned for an identity, add_wireguard
\* for it has then found no free address in one network and has given it no
\* peer block there, and the certificate and the .ovpn files of the
\* add_openvpn call are in place.
PartialCoverage ==
    /\ AllIdle
    /\ Len(hist) = 2
    /\ hist[1].op = "add_openvpn" /\ hist[1].res = "ok"
    /\ hist[2].op = "add_wireguard" /\ hist[2].user = hist[1].user
    /\ LET u == hist[1].user IN
       /\ \E n \in NetSet : Exhausted(wgConf[n].peers) /\ BlocksOf(wgConf[n].peers, u) = {}
       /\ IssuedTo(pki, u) = {<<u, hist[1].id>>}
       /\ served.client[u] = hist[1].id
       /\ \A a \in OvpnFiles : dir[u][a] = hist[1].id

\* What add_openvpn and delete_openvpn do after a tool: another tool, the
\* copy of the key, certificate or CRL, the rendering of the profiles.
OpenvpnSteps == EasyRsaTools \cup {"copy", "render"}
\* Nothing of add_openvpn or delete_openvpn follows a failed tool in tr.
StopsAtFailure(tr) ==
    \A i, j \in 1..Len(tr) :
        (i < j /\ tr[i].step \in EasyRsaTools /\ ~tr[i].ok) => tr[j].step \notin OpenvpnSteps

\* C19: when revoke, build-client-full or gen-crl exits non-zero inside
\* add_openvpn or delete_openvpn, the call runs no later tool, copies no key
\* or CRL and renders no profile.
ToolFailureAborts ==
    /\ \A t \in Tasks : StopsAtFailure(call[t].trace)
    /\ \A i \in 1..Len(hist) : StopsAtFailure(hist[i].trace)

\* C20: in no peer table do two peer blocks carry the same client address.
UniqueIps ==
    \A n \in NetSet : \A i, j \in 1..Len(wgConf[n].peers) :
        wgConf[n].peers[i].ip = wgConf[n].peers[j].ip => i = j

\* The same with the calls for different users only, as the per-user lock of
\* create_user has them.
UniqueIpsOtherUsers ==
    (\A t1, t2 \in Tasks : (t1 # t2 /\ call[t1].op # "none") => call[t1].user # call[t2].user)
    => UniqueIps

\* No identity tags two peer blocks of one table.
AtMostOneBlock ==
    \A n \in NetSet :
        LET peers == wgConf[n].peers
        IN Cardinality({peers[i].client : i \in 1..Len(peers)}) = Len(peers)
\* The step with which t returns from a call of fn, without an exception.
Returns(t, fn) ==
    /\ call[t].op = fn
    /\ pc'[t] = "idle"
    /\ Len(hist') = Len(hist) + 1
    /\ hist'[Len(hist')].task = t
    /\ hist'[Len(hist')].res = "ok"

\* No other coroutine runs or has run a call for the user of t's call, as
\* it is with the per-user lock of create_user.
OnlyCaller(t) ==
    /\ \A o \in Tasks \ {t} : call[o].user # call[t].user
    /\ \A i \in 1..Len(hist) : hist[i].task # t => hist[i].user # call[t].user

\* C21: each peer table has at most one peer block tagged with a given
\* identity, in every state; and when add_wireguard returns for an identity,
\* each table has exactly one (stated for the calls whose user no other
\* coroutine calls for).
OneBlockPerIdentity ==
    /\ []AtMostOneBlock
    /\ [][\A t \in Tasks : (Returns(t, "add_wireguard") /\ OnlyCaller(t)) =>
             \A n \in NetSet : Cardinality(BlocksOf(wgConf'[n].peers, call[t].user)) = 1]_vars

\* C22: a step of a call for one identity leaves the peer blocks of every
\* other identity as they are in every table, whatever other call it
\* overlaps with.
OtherBlocksKept ==
    [][\A t \in Tasks : pc'[t] # pc[t] =>
          \A n \in NetSet :
              WithoutClient(wgConf'[n].peers, call[t].user)
                  = WithoutClient(wgConf[n].peers, call[t].user)]_vars

\* The step with which t ends its call, by return or by exception.
Ends(t) == pc[t] # "idle" /\ pc'[t] = "idle"
\* The resync of add_wireguard is made outside the file lock.
SyncOutsideLock == \A t \in Tasks : pc[t] = "aw_sync" => ~InFileLock(t, NetOf(t))

\* C23: when a call that has changed a peer table ends, it has resynced the
\* interface of that network after its last change; and the resync of
\* add_wireguard is made after the file lock has been left.
ChangeThenResync ==
    /\ []SyncOutsideLock
    /\ [][\A t \in Tasks : Ends(t) => loc[t].dirty = {}]_vars

\* A marker that is there belongs to a call inside the block.
MarkerHasHolder == \A n \in NetSet : lockMarker[n] => \E t \in Tasks : InFileLock(t, n)

\* C24: when a call leaves the file_lock block of a network, by its end, by
\* the `continue` or by an exception, the marker of that network is not
\* there any more; in no state is there a marker without a call inside the
\* block.
MarkerLeavesWithCall ==
    /\ []MarkerHasHolder
    /\ [][\A t \in Tasks : \A n \in NetSet :
             (InFileLock(t, n) /\ ~InFileLock(t, n)') => ~lockMarker'[n]]_vars

\* The case of C24: a call has left the block of the first network by its
\* end and has written the profiles, and has left that of the second by the
\* exception of the missing file; the other call has left the block of the
\* first network by the `continue`; no marker is there.
LeftEveryWay ==
    /\ hist # <<>>
    /\ hist[1].res = "FileNotFoundError"
    /\ ~wgConf["vpn"].exists
    /\ \A a \in ConfFilesOf("antizapret") : dir[hist[1].user][a] = hist[1].id
    /\ \E t \in Tasks : /\ pc[t] = "fl_check"
                        /\ loc[t].net = Len(Nets)
                        /\ loc[t].after = "continue"
    /\ \A n \in NetSet : ~lockMarker[n]

\* The call that ends with the step, as hist has it after the step.
EndedCall == hist'[Len(hist')]
\* The .json and .txt files of an identity.
XrayFiles == JsonFiles \cup TxtFiles

\* C25: when handle_add_user has run, with the Xray API reachable, for an
\* identity that had a row, the
\* .json and .txt files the identity had before are gone, remove_client has
\* been called, and before any add_client; the identity is registered with
\* the UUID of the row, and the row is as it was.
ReprovisionReplaces ==
    [][\A t \in Tasks :
          (/\ Ends(t)
           /\ call[t].op = "handle_add_user"
           /\ call[t].snap.rows # {}
           /\ Healthy(call[t])) =>
             LET u == call[t].user
                 tr == EndedCall.trace
             IN /\ \A a \in XrayFiles : dir'[u][a] \in {0, call[t].id}
                /\ StepsOf(tr, "remove_client") # {}
                /\ \A j \in StepsOf(tr, "add_client") :
                      /\ \E i \in StepsOf(tr, "remove_client") : i < j
                      /\ tr[j].ok => \E r \in call[t].snap.rows :
                                        [uuid |-> r.uuid, email |-> u] \in remote'
                /\ RowsOf(u)' = call[t].snap.rows]_vars

\* The steps named s of a trace that failed.
FailedSteps(tr, s) == {i \in StepsOf(tr, s) : ~tr[i].ok}

\* C26: a handle_add_user call in which add_client has failed returns
\* without an exception and has written no .json and no .txt file.
AddFailureWritesNothing ==
    [][\A t \in Tasks :
          (/\ Ends(t)
           /\ call[t].op = "handle_add_user"
           /\ FailedSteps(EndedCall.trace, "add_client") # {}) =>
             /\ EndedCall.res = "ok"
             /\ \A a \in XrayFiles : dir'[call[t].user][a] # call[t].id]_vars

\* The case of C26: handle_add_user has been called for a new identity with
\* the Xray API unreachable; the row is there, add_client has failed, the
\* call has returned and the identity has no .json and no .txt file.
AddFailedNoFiles ==
    /\ AllIdle
    /\ hist # <<>>
    /\ LastCall.op = "handle_add_user"
    /\ LastCall.snap.rows = {}
    /\ FailedSteps(LastCall.trace, "add_client") # {}
    /\ LastCall.res = "ok"
    /\ RowsOf(LastCall.user) # {}
    /\ RegsOf(LastCall.user) = {}
    /\ FilesIn(dir[LastCall.user], XrayFiles) = {}

TracesFor(u) ==
    {hist[i].trace : i \in {j \in 1..Len(hist) : hist[j].user = u}}
        \cup {call[t].trace : t \in {x \in Tasks : pc[x] # "idle" /\ call[x].user = u}}

RemoveFailureOnlyLogged ==
    [][\A t \in Tasks :
          /\ (/\ call[t].op = "delete"
              /\ pc[t] = "hr_clean" /\ pc'[t] # "hr_clean"
              /\ FailedSteps(call[t].trace, "remove_client") # {}) =>
                /\ pc'[t] = "cl_check"
                /\ RowsOf(call[t].user)' = {}
                /\ \A a \in XrayFiles : dir'[call[t].user][a] = 0
          /\ (/\ Ends(t)
              /\ call[t].op = "delete"
              /\ FailedSteps(EndedCall.trace, "remove_client") # {}) =>
                /\ EndedCall.res # "XrayError"
                /\ RowsOf(call[t].user)' = {}
                /\ \A a \in XrayFiles : dir'[call[t].user][a] = 0]_vars

\* The case of C28: delete_user has ended for an identity that had a row and
\* the .json and .txt files; remove_client failed, the call returned, the row
\* and the files are gone.
RemovedDespiteFailure ==
    /\ AllIdle
    /\ hist # <<>>
    /\ LastCall.op = "delete"
    /\ LastCall.snap.rows # {}
    /\ \A a \in XrayFiles : LastCall.snap.files[a] # 0
    /\ FailedSteps(LastCall.trace, "remove_client") # {}
    /\ LastCall.res = "ok"
    /\ RowsOf(LastCall.user) = {}
    /\ FilesIn(dir[LastCall.user], XrayFiles) = {}

\* C29: a delete_user call that finds no row for its identity makes no
\* remove_client call, and its handle_remove_user is left with the table, the
\* registrations and the files as they were, by a return.
NoRowNothingDone ==
    [][\A t \in Tasks :
          /\ (pc[t] = "hr_lookup" /\ pc'[t] # "hr_lookup" /\ ~HasRow(call[t].user)) =>
                /\ pc'[t] = "cl_check"
                /\ tbl' = tbl
                /\ remote' = remote
                /\ dir' = dir
                /\ call'[t].trace = call[t].trace
          /\ (/\ Ends(t)
              /\ call[t].op = "delete"
              /\ StepsOf(EndedCall.trace, "get_xray_client") # {}
              /\ call[t].snap.rows = {}) =>
                StepsOf(EndedCall.trace, "remove_client") = {}]_vars

\* The case of C29: delete_user has ended for an identity without a row; it
\* got an Xray client, made no remove_client call and returned, with the
\* table as it was.
NoRowReturned ==
    /\ AllIdle
    /\ hist # <<>>
    /\ LastCall.op = "delete"
    /\ LastCall.snap.rows = {}
    /\ \E i \in StepsOf(LastCall.trace, "get_xray_client") : LastCall.trace[i].ok
    /\ StepsOf(LastCall.trace, "remove_client") = {}
    /\ LastCall.res = "ok"
    /\ tbl # {}

FreshPki == [ca |-> TRUE, issued |-> {}, revoked |-> {}, crl |-> {}, hasCrl |-> FALSE]

\* C31: init_openvpn returns; with the CA and the server certificate there
\* it leaves the PKI, its certificates and its revocations as they are, and
\* without them it leaves a fresh PKI.
InitOpenvpnIdempotent ==
    [][\A t \in Tasks :
          (pc[t] = "ov_init" /\ pc'[t] # "ov_init") =>
             /\ ~Ends(t)
             /\ pki' = IF pki.ca THEN pki ELSE FreshPki]_vars

\* A certificate is issued or revoked, never both, and an identity has at
\* most one issued certificate.
OneValidCert ==
    /\ pki.issued \cap pki.revoked = {}
    /\ \A u \in Users : Cardinality(IssuedTo(pki, u)) <= 1

DoneSteps(tr, s) == {i \in StepsOf(tr, s) : tr[i].ok}

\* C33: when a call that has revoked a certificate returns, the CRL of the
\* serving directory lists every revoked certificate of its identity.
ServedCrlListsRevoked ==
    [][\A t \in Tasks :
          (/\ Ends(t)
           /\ EndedCall.res = "ok"
           /\ DoneSteps(EndedCall.trace, "revoke") # {}) =>
             RevokedOf(pki', call[t].user) \subseteq served'.crl]_vars

\* The same for delete_user calls whose tools have all done their work.
ServedCrlAfterDelete ==
    [][\A t \in Tasks :
          (/\ Ends(t)
           /\ call[t].op = "delete"
           /\ FailedTools(EndedCall.trace) = {}
           /\ DoneSteps(EndedCall.trace, "revoke") # {}) =>
             RevokedOf(pki', call[t].user) \subseteq served'.crl]_vars

\* The allocation of add_wireguard finds no address in the file: there is no
\* Address line, or every octet of [2,254] occurs.
NoAddress(conf) == ~conf.base \/ Exhausted(conf.peers)

WritesUnderUserLock ==
    [][\A u \in Users :
          (dir'[u] # dir[u] \/ dirExists'[u] # dirExists[u]) =>
             \E t \in Tasks : /\ pc'[t] # pc[t]
                              /\ call[t].user = u
                              /\ user_locks[u].holder = t]_vars

\* The same for the steps of handle_remove_user and delete_wireguard.
UserBlockWritesUnderLock ==
    [][\A u \in Users : \A t \in Tasks :
          (/\ pc[t] \in {"dw_read", "dw_write", "dw_clean", "hr_lookup", "hr_remote",
                         "hr_db", "hr_clean"}
           /\ pc'[t] # pc[t]
           /\ dir'[u] # dir[u]) =>
             call[t].user = u /\ user_locks[u].holder = t]_vars

\* C36: the cleanup of delete_user removes only an empty directory, and the
\* directory add_openvpn has made is still there when it writes the profiles.
CleanupRemovesOnlyEmpty ==
    [][\A t \in Tasks :
          /\ (pc[t] = "cl_rmtree" /\ pc'[t] # pc[t] /\ dirExists[call[t].user]) =>
                \A a \in ArtNames : dir[call[t].user][a] = 0
          /\ (pc[t] = "ao_render" /\ pc'[t] # pc[t]) => dirExists[call[t].user]]_vars

\* Coroutine t holds lock l or waits for it.
HasOrWaits(l, t) == l.holder = t \/ \E i \in 1..Len(l.waiters) : l.waiters[i] = t

\* No call holds openvpn_lock and a per-user lock at the same time.
NeverBothLocks ==
    \A t \in Tasks : \A u \in Users :
        ~(openvpn_lock.holder = t /\ user_locks[u].holder = t)

\* A coroutine that runs no call holds no lock and waits for none.
IdleHoldsNothing ==
    \A t \in Tasks :
        pc[t] = "idle" =>
           /\ ~HasOrWaits(openvpn_lock, t)
           /\ \A u \in Users : ~HasOrWaits(user_locks[u], t)

\* C37: every create_user and delete_user call ends, by return or by
\* exception; no call holds openvpn_lock and a per-user lock together, and a
\* call that has ended holds no lock.
EveryCallEnds ==
    /\ []NeverBothLocks
    /\ []IdleHoldsNothing
    /\ \A t \in Tasks : (pc[t] # "idle") ~> (pc[t] = "idle")

\* The case of C37: two delete_user calls for the same user have overlapped,
\* the second one queueing behind the first for both locks; both have ended
\* and every lock is free.
OverlappedCallsEnded ==
    /\ AllIdle
    /\ Len(hist) = 2
    /\ hist[1].op = "delete" /\ hist[2].op = "delete"
    /\ hist[1].user = hist[2].user
    /\ hist[1].task # hist[2].task
    /\ \E i \in 1..2 : ~hist[i].snap.alone
    /\ openvpn_lock = FreeLock
    /\ \A u \in Users : user_locks[u] = FreeLock

\* The identity is provisioned in OpenVPN, WireGuard and Xray, or in none.
InAllThree(u) ==
    /\ IssuedTo(pki, u) # {}
    /\ \A n \in NetSet : BlocksOf(wgConf[n].peers, u) # {}
    /\ RowsOf(u) # {} /\ RegsOf(u) # {}
InNone(u) ==
    /\ IssuedTo(pki, u) = {}
    /\ NoBlocks(u)
    /\ RowsOf(u) = {} /\ RegsOf(u) = {}

\* A create_user and a delete_user call for the same user have overlapped,
\* with the Xray API reachable and every tool doing its work, and both have
\* ended.
CreateAndDeleteEnded ==
    /\ AllIdle
    /\ Len(hist) = 2
    /\ {hist[1].op, hist[2].op} = {"create", "delete"}
    /\ hist[1].user = hist[2].user
    /\ \E i \in 1..2 : ~hist[i].snap.alone
    /\ \A i \in 1..2 : Healthy(hist[i]) /\ ToolsOk(hist[i])

\* C38: when a create_user and a delete_user call for the same user have
\* overlapped with every subsystem healthy, both have returned and the
\* identity is provisioned in all three protocols or in none.
CreateDeleteSameOrder ==
    CreateAndDeleteEnded =>
       /\ \A i \in 1..2 : hist[i].res = "ok"
       /\ InAllThree(hist[1].user) \/ InNone(hist[1].user)

\* What is left of it: the identity is in all three or in none.
CreateDeleteConsistent ==
    CreateAndDeleteEnded => InAllThree(hist[1].user) \/ InNone(hist[1].user)


BothKindsRendered ==
    /\ HostOr(config.OPENVPN_HOST) # HostOr(config.WIREGUARD_HOST)
    /\ \E u \in Users : profileHost[u].ovpn # "none"
    /\ \E u \in Users : profileHost[u].conf # "none"


\* The coroutines that are in the handler of a callback query of user u.
Handling(u) == {c \in Callbacks : callback[c].pc = "handler" /\ callback[c].user_id = u}

\* No user has two handlers running, and the users in locks are those with a
\* handler running.
OneHandlerEach ==
    /\ \A u \in Users : Cardinality(Handling(u)) <= 1
    /\ locks = {u \in Users : Handling(u) # {}}

\* A delivered callback query is dropped, and no handler starts, exactly when
\* a handler of its user is running; otherwise one handler of that user
\* starts and those of the other users go on.
DeliveryDropsOrHandles ==
    delivered' = delivered + 1 =>
        LET u == lastEvent'.user_id IN
            /\ u \in Users
            /\ IF Handling(u) # {}
               THEN lastEvent'.what = "dropped" /\ callback' = callback
               ELSE /\ lastEvent'.what = "handler"
                    /\ \E c \in Callbacks :
                         /\ callback[c].pc = "idle"
                         /\ callback' = [callback EXCEPT
                                            ![c] = [pc |-> "handler", user_id |-> u]]

\* A handler that ends, by return or by exception, leaves its user unlocked.
HandlerEndUnlocks ==
    \A c \in Callbacks :
        callback[c].pc = "handler" /\ callback'[c].pc = "idle" =>
            /\ callback[c].user_id \notin locks'
            /\ lastEvent' \in [what : {"returned", "raised"}, user_id : {callback[c].user_id}]

\* C40: the middleware never runs two handlers of one user at the same time:
\* a callback query delivered while a handler of its user runs is dropped and
\* no handler is called for it, callback queries of other users get their
\* handlers, and the user is unlocked when the handler ends, by return or by
\* exception.
OneCallbackPerUser ==
    /\ []OneHandlerEach
    /\ [][DeliveryDropsOrHandles]_vars
    /\ [][HandlerEndUnlocks]_vars

\* A callback query was dropped, handlers have returned and raised, and the
\* handlers of both users run at the same time.
DroppedRaisedAndOverlapped ==
    /\ {"dropped", "returned", "raised"} \subseteq outcomes
    /\ \A u \in Users : Handling(u) # {}

====
